---- MODULE Spec2Model ----
(***************************************************************************)
(* Attestation retrieval, trust scoring and tool dispatch of the Intuition *)
(* MCP server.  Two versions of the graph client are in the repository:    *)
(* src/lib/intuition/client.ts ("graphql": filtering is done by the graph  *)
(* service through a where clause) and src/unnamed/part_005 ("memory":     *)
(* everything is fetched and filtered in memory).  The variable impl says  *)
(* which of the two is deployed.                                           *)
(*                                                                         *)
(* Text is a sequence of one-character strings, so that toLowerCase,       *)
(* includes and the service's _ilike are computed and not assumed.  A      *)
(* number is an integer count of tenths (0.5 is 5, 1000 is 10000).  A      *)
(* score is the exact fraction [num, den].  Wall-clock fields (lastUpdated,*)
(* recentActivity) are left out of the results.                            *)
(***************************************************************************)
EXTENDS Integers, Sequences, FiniteSets, TLC

VARIABLES graph, impl, req, upstream, resp, calls, session, tasks

vars == <<graph, impl, req, upstream, resp, calls, session, tasks>>

(***************************************************************************)
(* Bounds                                                                  *)
(***************************************************************************)
MaxTriples == 2

MaxMatch == 5

MaxTie == 2

(***************************************************************************)
(* Text                                                                    *)
(***************************************************************************)
UpperCase == <<"A","B","C","D","E","F","G","H","I","J","K","L","M",
               "N","O","P","Q","R","S","T","U","V","W","X","Y","Z">>

LowerCase == <<"a","b","c","d","e","f","g","h","i","j","k","l","m",
               "n","o","p","q","r","s","t","u","v","w","x","y","z">>

LowerChar(c) ==
  IF \E i \in 1..26 : UpperCase[i] = c
  THEN LowerCase[CHOOSE i \in 1..26 : UpperCase[i] = c]
  ELSE c

\* String.prototype.toLowerCase
toLowerCase(s) == [i \in 1..Len(s) |-> LowerChar(s[i])]

\* String.prototype.includes
includes(s, kw) ==
  \E i \in 0..(Len(s) - Len(kw)) : SubSeq(s, i + 1, i + Len(kw)) = kw

\* undefined / null as the value of a field
Missing == <<"undefined">>

\* JavaScript truthiness of a string-or-undefined value
Truthy(s) == s # Missing /\ s # <<>>

OrLast(a, b) == IF Truthy(b) THEN b ELSE a

\* a || b on string-or-undefined values
Or(a, b) == IF Truthy(a) THEN a ELSE b

\* node?.field
Opt(node, f) == IF node.isNull THEN Missing ELSE node[f]

Space == <<" ">>

HexDigits == {"0","1","2","3","4","5","6","7","8","9",
              "a","b","c","d","e","f","A","B","C","D","E","F"}

HexLen == 40

\* /^0x[a-fA-F0-9]{40}$/.test(s)
addressRegex(s) ==
  /\ Len(s) = 2 + HexLen
  /\ s[1] = "0"
  /\ s[2] = "x"
  /\ \A i \in 3..Len(s) : s[i] \in HexDigits

\* The prefixes of t one more pattern character c can extend the match to,
\* from the prefixes in reached (a prefix is named by its length).
LikeStep(t, c, reached) ==
  IF c = "%" THEN {j \in 0..Len(t) : \E i \in reached : i <= j}
  ELSE IF c = "_" THEN {i + 1 : i \in {j \in reached : j < Len(t)}}
  ELSE {i + 1 : i \in {j \in reached : j < Len(t) /\ LowerChar(t[j + 1]) = LowerChar(c)}}

RECURSIVE LikeFrom(_, _, _, _)
LikeFrom(t, p, k, reached) ==
  IF reached = {} THEN FALSE
  ELSE IF k > Len(p) THEN Len(t) \in reached
  ELSE LikeFrom(t, p, k + 1, LikeStep(t, p[k], reached))

\* PostgreSQL ILIKE as Hasura's _ilike applies it: % is any run, _ any one
\* character, everything else compares case-insensitively.
Like(t, p) == LikeFrom(t, p, 1, {0})

\* column _ilike pattern; a NULL column never matches
ilike(col, p) == col # Missing /\ Like(col, p)

\* `%${x}%`
Wrap(x) == <<"%">> \o x \o <<"%">>

(***************************************************************************)
(* Fractions                                                               *)
(***************************************************************************)
Frac(n, d) == [num |-> n, den |-> d]

FracLe(a, b) == a.num * b.den <= b.num * a.den

FracEq(a, b) == a.num * b.den = b.num * a.den

MathMax(a, b) == IF FracLe(a, b) THEN b ELSE a

MathMin(a, b) == IF FracLe(a, b) THEN a ELSE b

Zero == Frac(0, 1)

Hundred == Frac(100, 1)

ClampAbove(x) == MathMin(x, Hundred)

\* Math.min(Math.max(x, 0), 100)
Clamp(x) == MathMin(MathMax(x, Zero), Hundred)

(***************************************************************************)
(* Words and addresses the graph contents and the requests are built from  *)
(***************************************************************************)
Addr(c) == <<"0","x">> \o [i \in 1..HexLen |-> c]

AddrA == Addr("a")

AddrAUpper == Addr("A")

AddrB == Addr("b")

AddrShort == <<"0","x","a","b">>

wExpert == <<"E","x","p","e","r","t">>

wExpertLower == <<"e","x","p","e","r","t">>

wScam == <<"s","c","a","m">>

wUntrusted == <<"u","n","t","r","u","s","t","e","d">>

wVerified == <<"v","e","r","i","f","i","e","d">>

wLikes == <<"l","i","k","e","s">>

wSkill == <<"s","k","i","l","l">>

wDefi == <<"d","e","f","i">>

wAlice == <<"a","l","i","c","e">>

\* a claim with an ILIKE wildcard in it: "s_am"
wWild == <<"s","_","a","m">>

positiveKeywords ==
  { wExpertLower,
    <<"t","r","u","s","t","e","d">>,
    wVerified,
    <<"c","r","e","d","i","b","l","e">>,
    <<"r","e","l","i","a","b","l","e">> }

negativeKeywords ==
  { wScam,
    <<"f","r","a","u","d">>,
    wUntrusted,
    <<"s","u","s","p","i","c","i","o","u","s">> }

kwCredib == <<"c","r","e","d","i","b">>

kwTrust == <<"t","r","u","s","t">>

kwSkill == wSkill

kwReliab == <<"r","e","l","i","a","b">>

(***************************************************************************)
(* The external graph service                                              *)
(***************************************************************************)
Node(w, l, d) == [isNull |-> FALSE, wallet_id |-> w, label |-> l, data |-> d]

NullNode == [isNull |-> TRUE, wallet_id |-> Missing, label |-> Missing, data |-> Missing]

\* subject_id, predicate_id and object_id are derived from term_id here
Triple(id, cr, at, s, p, o) ==
  [term_id |-> id, creator_id |-> cr, created_at |-> at,
   subject_id |-> id \o <<"s">>, predicate_id |-> id \o <<"p">>,
   object_id |-> id \o <<"o">>,
   subject |-> s, predicate |-> p, object |-> o]

\* The records the graph may hold.  created_at is in milliseconds.
TripleUniverse ==
  { Triple(<<"t","1">>, AddrB, 6000, Node(AddrA, Missing, Missing),
           Node(Missing, wExpert, Missing), Node(Missing, wDefi, Missing)),
    Triple(<<"t","2">>, AddrB, 5000, Node(AddrA, Missing, Missing),
           Node(Missing, Missing, wScam), Node(Missing, wDefi, Missing)),
    Triple(<<"t","3">>, AddrA, 4000, Node(AddrB, Missing, Missing),
           Node(Missing, wUntrusted, Missing), NullNode),
    Triple(<<"t","4">>, AddrA, 3000, NullNode,
           Node(Missing, wVerified, Missing), Node(Missing, <<>>, wExpertLower)),
    Triple(<<"t","5">>, AddrB, 2000, Node(AddrB, Missing, Missing),
           Node(Missing, wLikes, Missing), Node(AddrA, Missing, AddrAUpper)),
    Triple(<<"t","6">>, Missing, 1000, Node(AddrAUpper, Missing, wAlice),
           Node(Missing, wSkill, wExpert), Node(wDefi, Missing, Missing)) }

\* Sequences of at most n distinct records of S
RECURSIVE Streams(_, _)
Streams(S, n) ==
  IF n = 0 THEN { <<>> }
  ELSE LET shorter == Streams(S, n - 1)
       IN shorter \cup { Append(g, t) : g \in { h \in shorter : Len(h) = n - 1 },
                                        t \in S }

Distinct(g) == \A i, j \in 1..Len(g) : i # j => g[i] # g[j]

Graphs == { g \in Streams(TripleUniverse, MaxTriples) : Distinct(g) }

\* order_by: { created_at: desc }, as a stable insertion sort
RECURSIVE InsertDesc(_, _, _)
InsertDesc(sorted, x, i) ==
  IF i > Len(sorted) THEN Append(sorted, x)
  ELSE IF sorted[i].created_at < x.created_at
    THEN SubSeq(sorted, 1, i - 1) \o <<x>> \o SubSeq(sorted, i, Len(sorted))
  ELSE InsertDesc(sorted, x, i + 1)

RECURSIVE OrderByCreatedDesc(_)
OrderByCreatedDesc(s) ==
  IF s = <<>> THEN <<>>
  ELSE InsertDesc(OrderByCreatedDesc(SubSeq(s, 1, Len(s) - 1)), s[Len(s)], 1)

Min(a, b) == IF a <= b THEN a ELSE b

Take(s, n) == SubSeq(s, 1, Min(n, Len(s)))

Drop(s, n) == SubSeq(s, Min(n, Len(s)) + 1, Len(s))

\* Message of the error the transport raises
UpstreamMessage == "connect ECONNREFUSED"

\* Message of the error response for a variable that is not an Int
IntCoercionMessage == "expecting an Int for variable"

Thrown(isErr, nm, msg) == [isError |-> isErr, name |-> nm, message |-> msg]

Ok(v, n) == [ok |-> TRUE, value |-> v, n |-> n]

Fail(e, n) == [ok |-> FALSE, thrown |-> e, n |-> n]

RequestWithRetry(up, rows, ordered, limit10, offset10) ==
  IF up = "error" THEN Fail(Thrown(TRUE, "Error", <<UpstreamMessage>>), 2)
  ELSE IF up = "nonError" THEN Fail(Thrown(FALSE, "", <<UpstreamMessage>>), 2)
  ELSE IF limit10 % 10 # 0 \/ offset10 % 10 # 0
    THEN Fail(Thrown(TRUE, "Error", <<IntCoercionMessage>>), 2)
  ELSE Ok(Take(Drop(IF ordered THEN OrderByCreatedDesc(rows) ELSE rows,
                    offset10 \div 10), limit10 \div 10), 1)

\* GraphQLClient.request: one request to the service.  rows are the records
\* the where clause selected, limit10 and offset10 the Int variables in tenths.
Request(up, rows, ordered, limit10, offset10) ==
  IF up = "error" THEN Fail(Thrown(TRUE, "Error", <<UpstreamMessage>>), 1)
  ELSE IF up = "nonError" THEN Fail(Thrown(FALSE, "", <<UpstreamMessage>>), 1)
  ELSE IF limit10 % 10 # 0 \/ offset10 % 10 # 0
    THEN Fail(Thrown(TRUE, "Error", <<IntCoercionMessage>>), 1)
  ELSE Ok(Take(Drop(IF ordered THEN OrderByCreatedDesc(rows) ELSE rows,
                    offset10 \div 10), limit10 \div 10), 1)

MessageOfRaw(e) == e.message

\* error instanceof Error ? error.message : 'Unknown error'
MessageOf(e) == IF e.isError THEN e.message ELSE <<"Unknown error">>

RethrowBare(prefix, r) == Fail(Thrown(TRUE, "Error", <<prefix>>), r.n)

\* throw new Error(`${prefix}: ${...}`)
Rethrow(prefix, r) == Fail(Thrown(TRUE, "Error", <<prefix>> \o MessageOf(r.thrown)), r.n)

(***************************************************************************)
(* JSON values of request bodies, tool arguments and validated parameters  *)
(***************************************************************************)
JAbsent == [t |-> "undefined"]

JNull == [t |-> "null"]

JStr(s) == [t |-> "str", s |-> s]

JNum(n10) == [t |-> "num", n10 |-> n10]

JArr == [t |-> "array"]

JObj(f) == [t |-> "object", f |-> f]

\* obj.name
Get(f, name) == IF name \in DOMAIN f THEN f[name] ELSE JAbsent

\* truthiness of a JSON value
JTruthy(v) ==
  CASE v.t = "str" -> v.s # <<>>
    [] v.t = "num" -> v.n10 # 0
    [] v.t = "object" -> TRUE
    [] v.t = "array" -> TRUE
    [] OTHER -> FALSE

\* filters.limit || dflt, in tenths
NumOr(v, dflt10) == IF JTruthy(v) THEN v.n10 ELSE dflt10

(***************************************************************************)
(* IntuitionClient.getAttestations                                         *)
(***************************************************************************)
OrEmpty(a) == IF Truthy(a) THEN a ELSE <<>>

\* the where clause getAttestations of client.ts builds from the filters
AttestationsWhere(filters, t) ==
  /\ JTruthy(Get(filters, "creator")) => t.creator_id = Get(filters, "creator").s
  /\ JTruthy(Get(filters, "subject")) =>
       ilike(Opt(t.subject, "wallet_id"), Wrap(Get(filters, "subject").s))
  /\ JTruthy(Get(filters, "predicate")) =>
       \/ ilike(Opt(t.predicate, "label"), Wrap(Get(filters, "predicate").s))
       \/ ilike(Opt(t.predicate, "data"), Wrap(Get(filters, "predicate").s))
  /\ JTruthy(Get(filters, "object")) =>
       \/ ilike(Opt(t.object, "label"), Wrap(Get(filters, "object").s))
       \/ ilike(Opt(t.object, "data"), Wrap(Get(filters, "object").s))

ToAttestationGraphql(triple) ==
  [id |-> triple.term_id,
   creator |-> triple.creator_id,
   subject |-> OrEmpty(Or(Opt(triple.subject, "wallet_id"), Opt(triple.subject, "label"))),
   predicate |-> OrEmpty(Or(Opt(triple.predicate, "label"), Opt(triple.predicate, "data"))),
   object |-> OrEmpty(Or(Or(Opt(triple.object, "label"), Opt(triple.object, "wallet_id")),
                         Opt(triple.object, "data"))),
   timestamp |-> Frac(triple.created_at, 1000),
   confidence |-> 85,
   stake |-> triple.term_id]

ToAttestationMemory(triple) ==
  [id |-> OrEmpty(triple.term_id),
   creator |-> OrEmpty(triple.creator_id),
   subject |-> OrEmpty(Or(Or(Or(Opt(triple.subject, "data"), Opt(triple.subject, "label")),
                             Opt(triple.subject, "wallet_id")), triple.subject_id)),
   predicate |-> OrEmpty(Or(Or(Opt(triple.predicate, "data"), Opt(triple.predicate, "label")),
                            triple.predicate_id)),
   object |-> OrEmpty(Or(Or(Opt(triple.object, "data"), Opt(triple.object, "label")),
                         triple.object_id)),
   timestamp |-> Frac(triple.created_at, 1),
   confidence |-> 80,
   stake |-> IF Truthy(triple.term_id) THEN triple.term_id ELSE <<"0">>]

MapSeq(s, F(_)) == [i \in 1..Len(s) |-> F(s[i])]

getAttestationsGraphql(g, up, filters) ==
  LET r == Request(up, SelectSeq(g, LAMBDA t : AttestationsWhere(filters, t)), TRUE,
                   NumOr(Get(filters, "limit"), 1000), NumOr(Get(filters, "offset"), 0))
  IN IF r.ok THEN Ok(MapSeq(r.value, ToAttestationGraphql), r.n)
     ELSE Rethrow("Failed to fetch attestations: ", r)

getAttestationsMemory(g, up, filters) ==
  LET r == Request(up, g, FALSE, NumOr(Get(filters, "limit"), 1000), 0)
  IN IF r.ok THEN Ok(MapSeq(r.value, ToAttestationMemory), r.n)
     ELSE Rethrow("Failed to fetch attestations: ", r)

getAttestations(im, g, up, filters) ==
  IF im = "graphql" THEN getAttestationsGraphql(g, up, filters)
  ELSE getAttestationsMemory(g, up, filters)

(***************************************************************************)
(* IntuitionClient.getTrustScore                                           *)
(***************************************************************************)
Count(s, P(_)) == Cardinality({ i \in 1..Len(s) : P(s[i]) })

RECURSIVE SumSeq(_)
SumSeq(s) == IF s = <<>> THEN 0 ELSE s[1] + SumSeq(Tail(s))

isPositive(text) == \E kw \in positiveKeywords : includes(text, kw)

isNegative(text) == \E kw \in negativeKeywords : includes(text, kw)

NeutralScore(address) ==
  [address |-> address, score |-> Frac(50, 1), attestationCount |-> 0,
   positiveAttestations |-> 0, negativeAttestations |-> 0,
   breakdown |-> [credibility |-> Frac(50, 1), expertise |-> Frac(50, 1),
                  reliability |-> Frac(50, 1), reputation |-> Frac(50, 1)]]

ZeroScore(address) ==
  [address |-> address, score |-> Zero, attestationCount |-> 0,
   positiveAttestations |-> 0, negativeAttestations |-> 0,
   breakdown |-> [credibility |-> Zero, expertise |-> Zero,
                  reliability |-> Zero, reputation |-> Zero]]

normalizedScoreSwapped(positiveCount, negativeCount, totalCount) ==
  Clamp(Frac((negativeCount - positiveCount * 2) * 100 + 50 * totalCount, totalCount))

normalizedScoreUnweighted(positiveCount, negativeCount, totalCount) ==
  Clamp(Frac((positiveCount - negativeCount) * 100 + 50 * totalCount, totalCount))

\* Math.min(Math.max(((positiveCount - negativeCount * 2) / totalCount) * 100 + 50, 0), 100)
normalizedScore(positiveCount, negativeCount, totalCount) ==
  Clamp(Frac((positiveCount - negativeCount * 2) * 100 + 50 * totalCount, totalCount))

\* Math.min(Math.max((sum / totalCount) * 100 + 50, 0), 100), sum2 being 2 * sum
breakdownScore(sum2, totalCount) ==
  Clamp(Frac(sum2 * 50 + 50 * totalCount, totalCount))

\* client.ts: text of the predicate and of the object of a raw record
predicateTextOf(att) ==
  toLowerCase(OrEmpty(Or(Opt(att.predicate, "label"), Opt(att.predicate, "data"))))

objectTextOf(att) ==
  toLowerCase(OrEmpty(Or(Opt(att.object, "label"), Opt(att.object, "data"))))

combinedTextOf(att) == predicateTextOf(att) \o Space \o objectTextOf(att)

\* isPositive ? 1 : (isNegative ? -0.5 : 0.5), doubled
Contribution2(att) ==
  IF isPositive(combinedTextOf(att)) THEN 2
  ELSE IF isNegative(combinedTextOf(att)) THEN -1 ELSE 1

CategorySum2(atts, kw1, kw2) ==
  SumSeq([i \in 1..Len(atts) |->
            IF includes(predicateTextOf(atts[i]), kw1) \/ includes(predicateTextOf(atts[i]), kw2)
            THEN Contribution2(atts[i]) ELSE 0])

ScoreGraphql(address, attestations) ==
  IF Len(attestations) = 0 THEN ZeroScore(address)
  ELSE LET positiveCount == Count(attestations, LAMBDA a : isPositive(combinedTextOf(a)))
           negativeCount == Count(attestations, LAMBDA a : isNegative(combinedTextOf(a)))
           totalCount == Len(attestations)
       IN [address |-> address,
           score |-> normalizedScore(positiveCount, negativeCount, totalCount),
           attestationCount |-> totalCount,
           positiveAttestations |-> positiveCount,
           negativeAttestations |-> negativeCount,
           breakdown |->
             [credibility |-> breakdownScore(CategorySum2(attestations, kwCredib, kwTrust), totalCount),
              expertise |-> breakdownScore(CategorySum2(attestations, wExpertLower, kwSkill), totalCount),
              reliability |-> breakdownScore(CategorySum2(attestations, kwReliab, wVerified), totalCount),
              reputation |-> normalizedScore(positiveCount, negativeCount, totalCount)]]

getTrustScoreGraphql(g, up, address) ==
  LET r == Request(up,
                   SelectSeq(g, LAMBDA t :
                     ilike(Opt(t.subject, "wallet_id"), Wrap(toLowerCase(address)))),
                   TRUE, 10000, 0)
  IN IF r.ok THEN Ok(ScoreGraphql(address, r.value), r.n)
     ELSE Rethrow("Failed to calculate trust score: ", r)

\* part_005: the attestations the address occurs in
isRelevant(a, address) ==
  LET searchTerm == toLowerCase(address)
  IN \/ includes(toLowerCase(a.subject), searchTerm)
     \/ includes(toLowerCase(a.creator), searchTerm)
     \/ includes(toLowerCase(a.object), searchTerm)

textOf(att) == toLowerCase(att.predicate \o Space \o att.object)

ScoreMemory(address, attestations) ==
  LET relevantAttestations == SelectSeq(attestations, LAMBDA a : isRelevant(a, address))
  IN IF Len(relevantAttestations) = 0 THEN ZeroScore(address)
     ELSE LET positiveCount == Count(relevantAttestations, LAMBDA a : isPositive(textOf(a)))
              negativeCount == Count(relevantAttestations, LAMBDA a : isNegative(textOf(a)))
              totalCount == Len(relevantAttestations)
              score == normalizedScore(positiveCount, negativeCount, totalCount)
          IN [address |-> address,
              score |-> score,
              attestationCount |-> totalCount,
              positiveAttestations |-> positiveCount,
              negativeAttestations |-> negativeCount,
              breakdown |-> [credibility |-> score, expertise |-> score,
                             reliability |-> score, reputation |-> score]]

getTrustScoreMemory(g, up, address) ==
  LET r == getAttestationsMemory(g, up, [limit |-> JNum(10000)])
  IN IF r.ok THEN Ok(ScoreMemory(address, r.value), r.n) ELSE r

getTrustScore(im, g, up, address) ==
  IF im = "graphql" THEN getTrustScoreGraphql(g, up, address)
  ELSE getTrustScoreMemory(g, up, address)

(***************************************************************************)
(* IntuitionClient.verifyCredential                                        *)
(***************************************************************************)
ToCredentialAttestation(triple) ==
  [id |-> triple.term_id,
   creator |-> triple.creator_id,
   subject |-> OrEmpty(Opt(triple.subject, "wallet_id")),
   predicate |-> OrEmpty(Or(Opt(triple.predicate, "label"), Opt(triple.predicate, "data"))),
   object |-> OrEmpty(Or(Opt(triple.object, "label"), Opt(triple.object, "data"))),
   timestamp |-> Frac(triple.created_at, 1000),
   confidence |-> 85]

avgConfidenceSum(verified, attestations) ==
  IF verified
  THEN Frac(SumSeq([i \in 1..Len(attestations) |-> attestations[i].confidence]), 1)
  ELSE Zero

\* verified ? reduce((sum, a) => sum + a.confidence, 0) / length : 0
avgConfidence(verified, attestations) ==
  IF verified
  THEN Frac(SumSeq([i \in 1..Len(attestations) |-> attestations[i].confidence]),
            Len(attestations))
  ELSE Zero

Verification(matching) ==
  LET verified == Len(matching) > 0
  IN [verified |-> verified,
      attestations |-> matching,
      confidence |-> avgConfidence(verified, matching)]

verifyCredentialGraphql(g, up, address, claim) ==
  LET r == Request(up,
                   SelectSeq(g, LAMBDA t :
                     /\ ilike(Opt(t.subject, "wallet_id"), Wrap(toLowerCase(address)))
                     /\ \/ ilike(Opt(t.predicate, "label"), Wrap(toLowerCase(claim)))
                        \/ ilike(Opt(t.predicate, "data"), Wrap(toLowerCase(claim)))),
                   TRUE, 500, 0)
  IN IF r.ok THEN Ok(Verification(MapSeq(r.value, ToCredentialAttestation)), r.n)
     ELSE Rethrow("Failed to verify credential: ", r)

matchesCredential(a, address, claim) ==
  LET searchAddress == toLowerCase(address)
      searchClaim == toLowerCase(claim)
  IN /\ \/ includes(toLowerCase(a.subject), searchAddress)
        \/ includes(toLowerCase(a.creator), searchAddress)
        \/ includes(toLowerCase(a.object), searchAddress)
     /\ \/ includes(toLowerCase(a.predicate), searchClaim)
        \/ includes(toLowerCase(a.object), searchClaim)

verifyCredentialMemory(g, up, address, claim) ==
  LET r == getAttestationsMemory(g, up, [limit |-> JNum(5000)])
  IN IF r.ok
     THEN Ok(Verification(SelectSeq(r.value, LAMBDA a : matchesCredential(a, address, claim))),
             r.n)
     ELSE r

verifyCredential(im, g, up, address, claim) ==
  IF im = "graphql" THEN verifyCredentialGraphql(g, up, address, claim)
  ELSE verifyCredentialMemory(g, up, address, claim)

(***************************************************************************)
(* IntuitionClient.findTrustedExperts                                      *)
(***************************************************************************)
\* expertMap.set(key, (expertMap.get(key) || 0) + 1): a Map keeps insertion order
Bump(m, key) ==
  IF \E i \in 1..Len(m) : m[i].address = key
  THEN [i \in 1..Len(m) |->
          IF m[i].address = key THEN [m[i] EXCEPT !.count = @ + 1] ELSE m[i]]
  ELSE Append(m, [address |-> key, count |-> 1])

RECURSIVE GroupBy(_)
GroupBy(keys) ==
  IF keys = <<>> THEN <<>>
  ELSE Bump(GroupBy(SubSeq(keys, 1, Len(keys) - 1)), keys[Len(keys)])

ToExpertUnsaturated(topic, entry) ==
  [address |-> entry.address,
   trustScore |-> 50 + entry.count * 10,
   attestationCount |-> entry.count,
   specializations |-> <<topic>>]

\* trustScore: Math.min(50 + count * 10, 100)
ToExpert(topic, entry) ==
  [address |-> entry.address,
   trustScore |-> Min(50 + entry.count * 10, 100),
   attestationCount |-> entry.count,
   specializations |-> <<topic>>]

InsertExpertTiesFirst(sorted, x, i) ==
  LET later == { k \in i..Len(sorted) : sorted[k].attestationCount <= x.attestationCount }
  IN IF later = {} THEN Append(sorted, x)
     ELSE LET k == CHOOSE m \in later : \A n \in later : m <= n
          IN SubSeq(sorted, 1, k - 1) \o <<x>> \o SubSeq(sorted, k, Len(sorted))

\* experts.sort((a, b) => b.attestationCount - a.attestationCount): Array.prototype.sort
\* is stable
RECURSIVE InsertExpert(_, _, _)
InsertExpert(sorted, x, i) ==
  IF i > Len(sorted) THEN Append(sorted, x)
  ELSE IF sorted[i].attestationCount < x.attestationCount
    THEN SubSeq(sorted, 1, i - 1) \o <<x>> \o SubSeq(sorted, i, Len(sorted))
  ELSE InsertExpert(sorted, x, i + 1)

SortExpertsNone(s) == s

RECURSIVE SortExperts(_)
SortExperts(s) ==
  IF s = <<>> THEN <<>>
  ELSE InsertExpert(SortExperts(SubSeq(s, 1, Len(s) - 1)), s[Len(s)], 1)

\* truncation of a number in tenths toward zero
Trunc10(n10) == IF n10 >= 0 THEN n10 \div 10 ELSE -((-n10) \div 10)

\* array.slice(0, limit)
Slice0(s, limit10) ==
  IF Trunc10(limit10) >= 0 THEN Take(s, Trunc10(limit10))
  ELSE Take(s, IF Len(s) + Trunc10(limit10) > 0 THEN Len(s) + Trunc10(limit10) ELSE 0)

RankExperts(topic, keys, limit10) ==
  Slice0(SortExperts(MapSeq(GroupBy(keys), LAMBDA e : ToExpert(topic, e))), limit10)

findTrustedExpertsGraphql(g, up, topic, limit10) ==
  LET r == Request(up,
                   SelectSeq(g, LAMBDA t :
                     \/ ilike(Opt(t.predicate, "label"), Wrap(toLowerCase(topic)))
                     \/ ilike(Opt(t.predicate, "data"), Wrap(toLowerCase(topic)))),
                   TRUE, 5000, 0)
  IN IF r.ok
     THEN Ok(RankExperts(topic,
                         MapSeq(SelectSeq(r.value, LAMBDA t : Truthy(Opt(t.subject, "wallet_id"))),
                                LAMBDA t : t.subject.wallet_id),
                         limit10), r.n)
     ELSE Rethrow("Failed to find experts: ", r)

matchesTopic(a, topic) ==
  \/ includes(toLowerCase(a.predicate), toLowerCase(topic))
  \/ includes(toLowerCase(a.object), toLowerCase(topic))

findTrustedExpertsMemory(g, up, topic, limit10) ==
  LET r == getAttestationsMemory(g, up, [limit |-> JNum(5000)])
  IN IF r.ok
     THEN Ok(RankExperts(topic,
                         MapSeq(SelectSeq(r.value, LAMBDA a : matchesTopic(a, topic)),
                                LAMBDA a : a.subject),
                         limit10), r.n)
     ELSE r

findTrustedExperts(im, g, up, topic, limit10) ==
  IF im = "graphql" THEN findTrustedExpertsGraphql(g, up, topic, limit10)
  ELSE findTrustedExpertsMemory(g, up, topic, limit10)

(***************************************************************************)
(* The zod schemas and the tool handlers of lib/mcp/tools.ts               *)
(***************************************************************************)
\* z.string() with an optional refinement
StringField(f, name, Refine(_)) ==
  IF Get(f, name).t = "str" /\ Refine(Get(f, name).s) THEN {} ELSE {name}

\* z.string().optional()
OptionalString(f, name) ==
  IF Get(f, name).t \in {"undefined", "str"} THEN {} ELSE {name}

\* z.number().min(lo).max(hi).optional(), bounds in tenths
OptionalNumber(f, name, Range(_)) ==
  IF Get(f, name).t = "undefined" THEN {}
  ELSE IF Get(f, name).t = "num" /\ Range(Get(f, name).n10) THEN {} ELSE {name}

\* z.object strips the keys the schema does not name
Strip(f, names) == [n \in (DOMAIN f) \cap names |-> f[n]]

Valid(v) == [ok |-> TRUE, value |-> v, issues |-> {}]

Invalid(issues) == [ok |-> FALSE, value |-> << >>, issues |-> issues]

\* the issue of a payload that is not an object
RootIssue == "<root>"

\* schema.parse(params): fields(f) are the names of the violated fields
Parse(params, Issues(_), names, Defaults(_)) ==
  IF params.t # "object" THEN Invalid({RootIssue})
  ELSE IF Issues(params.f) # {} THEN Invalid(Issues(params.f))
  ELSE Valid(Defaults(Strip(params.f, names)))

NoDefaults(f) == f

GetTrustScoreSchema(params) ==
  Parse(params, LAMBDA f : StringField(f, "address", addressRegex), {"address"}, NoDefaults)

GetAttestationsSchema(params) ==
  Parse(params,
        LAMBDA f :
          OptionalString(f, "creator") \cup OptionalString(f, "subject")
          \cup OptionalString(f, "predicate") \cup OptionalString(f, "object")
          \cup OptionalNumber(f, "minConfidence", LAMBDA n : 0 <= n /\ n <= 10)
          \cup OptionalNumber(f, "fromTimestamp", LAMBDA n : TRUE)
          \cup OptionalNumber(f, "toTimestamp", LAMBDA n : TRUE)
          \cup OptionalNumber(f, "limit", LAMBDA n : 10 <= n /\ n <= 10000)
          \cup OptionalNumber(f, "offset", LAMBDA n : 0 <= n),
        {"creator", "subject", "predicate", "object", "minConfidence",
         "fromTimestamp", "toTimestamp", "limit", "offset"},
        NoDefaults)

VerifyCredentialSchemaAddressFirst(params) ==
  Parse(params,
        LAMBDA f : IF StringField(f, "address", addressRegex) # {}
                   THEN StringField(f, "address", addressRegex)
                   ELSE StringField(f, "claim", LAMBDA s : Len(s) >= 1),
        {"address", "claim"}, NoDefaults)

VerifyCredentialSchema(params) ==
  Parse(params,
        LAMBDA f : StringField(f, "address", addressRegex)
                   \cup StringField(f, "claim", LAMBDA s : Len(s) >= 1),
        {"address", "claim"}, NoDefaults)

\* .optional().default(10)
DefaultLimitTwenty(f) ==
  IF "limit" \in DOMAIN f THEN f ELSE [n \in (DOMAIN f) \cup {"limit"} |->
                                        IF n = "limit" THEN JNum(200) ELSE f[n]]

DefaultLimit(f) ==
  IF "limit" \in DOMAIN f THEN f ELSE [n \in (DOMAIN f) \cup {"limit"} |->
                                        IF n = "limit" THEN JNum(100) ELSE f[n]]

FindTrustedExpertsSchema(params) ==
  Parse(params,
        LAMBDA f : StringField(f, "topic", LAMBDA s : Len(s) >= 1)
                   \cup OptionalNumber(f, "limit", LAMBDA n : 10 <= n /\ n <= 1000),
        {"topic", "limit"}, DefaultLimit)

\* the ZodError that parse throws
ZodError(issues) ==
  Fail(Thrown(TRUE, "ZodError", <<"[issues] ">> \o
         SelectSeq(<<RootIssue, "address", "claim", "topic", "creator", "subject",
                     "predicate", "object", "minConfidence", "fromTimestamp",
                     "toTimestamp", "limit", "offset">>, LAMBDA n : n \in issues)), 0)

handleGetTrustScore(im, g, up, params) ==
  LET validated == GetTrustScoreSchema(params)
  IN IF validated.ok THEN getTrustScore(im, g, up, validated.value.address.s)
     ELSE ZodError(validated.issues)

handleGetAttestationsFetchFirst(im, g, up, params) ==
  LET validated == GetAttestationsSchema(params)
      fetched == getAttestations(im, g, up, IF validated.ok THEN validated.value
                                            ELSE [n \in {} |-> JNull])
  IN IF validated.ok THEN fetched
     ELSE Fail(Thrown(TRUE, "ZodError", <<"[issues] ">>), fetched.n)

handleGetAttestations(im, g, up, params) ==
  LET validated == GetAttestationsSchema(params)
  IN IF validated.ok THEN getAttestations(im, g, up, validated.value)
     ELSE ZodError(validated.issues)

handleVerifyCredential(im, g, up, params) ==
  LET validated == VerifyCredentialSchema(params)
  IN IF validated.ok
     THEN verifyCredential(im, g, up, validated.value.address.s, validated.value.claim.s)
     ELSE ZodError(validated.issues)

handleFindTrustedExperts(im, g, up, params) ==
  LET validated == FindTrustedExpertsSchema(params)
  IN IF validated.ok
     THEN findTrustedExperts(im, g, up, validated.value.topic.s, validated.value.limit.n10)
     ELSE ZodError(validated.issues)

ToolNames == <<"getTrustScore", "getAttestations", "verifyCredential", "findTrustedExperts">>

\* the switch both entry points have: the handler of a known tool
RunTool(name, im, g, up, params) ==
  CASE name = "getTrustScore" -> handleGetTrustScore(im, g, up, params)
    [] name = "getAttestations" -> handleGetAttestations(im, g, up, params)
    [] name = "verifyCredential" -> handleVerifyCredential(im, g, up, params)
    [] name = "findTrustedExperts" -> handleFindTrustedExperts(im, g, up, params)

IsKnownTool(name) == \E i \in 1..Len(ToolNames) : ToolNames[i] = name

(***************************************************************************)
(* POST /api/mcp (src/unnamed/part_002) and the CallTool handler of the    *)
(* MCP session (lib/mcp/server.ts)                                         *)
(***************************************************************************)
NoData == [present |-> FALSE]

Data(v) == [present |-> TRUE, v |-> v]

\* NextResponse.json(body, { status }); success is "true", "false" or "absent"
PostResponse(status, success, error, details, availableTools, data, n) ==
  [uncaught |-> FALSE, status |-> status, success |-> success, error |-> error,
   details |-> details, availableTools |-> availableTools, data |-> data, n |-> n]

\* an exception that leaves a handler
Escaped(e, n) ==
  [uncaught |-> TRUE, status |-> 0, success |-> "absent", error |-> e.message,
   details |-> <<>>, availableTools |-> <<>>, data |-> NoData, n |-> n]

\* a tool name of a request body: absent, or any JSON string
NoTool == [t |-> "undefined"]

ToolName(name) == [t |-> "name", name |-> name]

\* !tool
ToolFalsy(tool) == tool.t = "undefined" \/ tool.name = ""

PostCatchRethrow(e, n) ==
  IF e.isError /\ e.name = "ZodError"
  THEN PostResponse(400, "false", <<"Validation error">>, e.message, <<>>, NoData, n)
  ELSE Escaped(e, n)

\* the catch block of POST
PostCatch(e, n) ==
  IF e.isError /\ e.name = "ZodError"
  THEN PostResponse(400, "false", <<"Validation error">>, e.message, <<>>, NoData, n)
  ELSE PostResponse(500, "false",
                    IF e.isError THEN e.message ELSE <<"Failed to execute tool">>,
                    <<>>, <<>>, NoData, n)

\* the default branch of the switch of POST
UnknownToolNoList(name) ==
  PostResponse(400, "absent", <<"Unknown tool: ", name>>, <<>>, <<>>, NoData, 0)

UnknownToolResponse(name) ==
  PostResponse(400, "absent", <<"Unknown tool: ", name>>, <<>>, ToolNames, NoData, 0)

POSTLookupFirst(im, g, up, body, tool, params) ==
  IF body = "unparsable"
    THEN PostCatch(Thrown(TRUE, "SyntaxError", <<"Unexpected token in JSON">>), 0)
  ELSE IF body = "null"
    THEN PostCatch(Thrown(TRUE, "TypeError", <<"Cannot destructure property 'tool'">>), 0)
  ELSE IF ToolFalsy(tool)
    THEN PostResponse(400, "absent", <<"Missing required field: tool">>, <<>>, <<>>, NoData, 0)
  ELSE IF ~IsKnownTool(tool.name)
    THEN UnknownToolResponse(tool.name)
  ELSE IF ~JTruthy(params) \/ params.t \notin {"object", "array"}
    THEN PostResponse(400, "absent", <<"Missing or invalid params object">>, <<>>, <<>>,
                      NoData, 0)
  ELSE LET result == RunTool(tool.name, im, g, up, params)
       IN IF result.ok
          THEN PostResponse(200, "true", <<>>, <<>>, <<>>, Data(result.value), result.n)
          ELSE PostCatch(result.thrown, result.n)

\* body is "unparsable" (request.json() throws), "null" (destructuring throws) or "json"
POST(im, g, up, body, tool, params) ==
  IF body = "unparsable"
    THEN PostCatch(Thrown(TRUE, "SyntaxError", <<"Unexpected token in JSON">>), 0)
  ELSE IF body = "null"
    THEN PostCatch(Thrown(TRUE, "TypeError", <<"Cannot destructure property 'tool'">>), 0)
  ELSE IF ToolFalsy(tool)
    THEN PostResponse(400, "absent", <<"Missing required field: tool">>, <<>>, <<>>, NoData, 0)
  ELSE IF ~JTruthy(params) \/ params.t \notin {"object", "array"}
    THEN PostResponse(400, "absent", <<"Missing or invalid params object">>, <<>>, <<>>,
                      NoData, 0)
  ELSE IF IsKnownTool(tool.name)
    THEN LET result == RunTool(tool.name, im, g, up, params)
         IN IF result.ok
            THEN PostResponse(200, "true", <<>>, <<>>, <<>>, Data(result.value), result.n)
            ELSE PostCatch(result.thrown, result.n)
  ELSE UnknownToolResponse(tool.name)

EmptyObject == JObj([n \in {} |-> JNull])

McpResponse(isError, error, data, n) ==
  [uncaught |-> FALSE, isError |-> isError, error |-> error, data |-> data, n |-> n]

McpCatchRethrow(e, n) ==
  [uncaught |-> TRUE, isError |-> FALSE, error |-> e.message, data |-> NoData, n |-> n]

\* the catch block of the CallTool handler
McpCatch(e, n) ==
  McpResponse(TRUE, IF e.isError THEN e.message ELSE <<"Unknown error occurred">>, NoData, n)

\* the CallToolRequestSchema handler; name is a string, params the arguments
CallTool(im, g, up, name, params) ==
  IF IsKnownTool(name)
  THEN LET result == RunTool(name, im, g, up, IF JTruthy(params) THEN params ELSE EmptyObject)
       IN IF result.ok THEN McpResponse(FALSE, <<>>, Data(result.value), result.n)
          ELSE McpCatch(result.thrown, result.n)
  ELSE McpCatch(Thrown(TRUE, "Error", <<"Unknown tool: ", name>>), 0)

\* what a CallTool result failed with: nothing, the schema, the name or the client
FailureOf(r) ==
  IF ~r.isError THEN "none"
  ELSE IF r.error[1] = "Unknown tool: " THEN "unknown"
  ELSE IF r.error[1] = "[issues] " THEN "validation"
  ELSE "retrieval"

\* the stdio session of the MCP server: it runs until an exception leaves a
\* request handler; served tells whether a tool call has been handled, and
\* lastFailure how the last failed tool call failed
FreshSession == [running |-> TRUE, served |-> FALSE, lastFailure |-> "none"]

\* the session after the CallTool handler has produced r
AfterCall(s, r) ==
  [running |-> s.running /\ ~r.uncaught,
   served |-> TRUE,
   lastFailure |-> IF FailureOf(r) = "none" THEN s.lastFailure ELSE FailureOf(r)]

(***************************************************************************)
(* GET /api/attestations (app/api/attestations/route.ts)                   *)
(***************************************************************************)
Digits == <<"0","1","2","3","4","5","6","7","8","9">>

IsDigit(c) == \E i \in 1..10 : Digits[i] = c

DigitValue(c) == (CHOOSE i \in 1..10 : Digits[i] = c) - 1

NaN == [nan |-> TRUE, n10 |-> 0]

Num(n10) == [nan |-> FALSE, n10 |-> n10]

\* length of the longest prefix of s made of digits
RECURSIVE DigitRun(_)
DigitRun(s) == IF s # <<>> /\ IsDigit(Head(s)) THEN 1 + DigitRun(Tail(s)) ELSE 0

RECURSIVE DigitsValue(_)
DigitsValue(s) ==
  IF s = <<>> THEN 0 ELSE DigitsValue(SubSeq(s, 1, Len(s) - 1)) * 10 + DigitValue(s[Len(s)])

Unsigned(s) == IF s # <<>> /\ Head(s) \in {"-", "+"} THEN Tail(s) ELSE s

Sign(s) == IF s # <<>> /\ Head(s) = "-" THEN -1 ELSE 1

\* parseInt(s): optional sign, then the leading decimal digits; in tenths
parseInt(s) ==
  IF DigitRun(Unsigned(s)) = 0 THEN NaN
  ELSE Num(Sign(s) * 10 * DigitsValue(SubSeq(Unsigned(s), 1, DigitRun(Unsigned(s)))))

\* parseFloat(s): optional sign, digits, then "." and digits; in tenths, for
\* texts with at most one digit after the point
parseFloat(s) ==
  LET u == Unsigned(s)
      k == DigitRun(u)
      rest == SubSeq(u, k + 1, Len(u))
      hasFraction == Len(rest) >= 2 /\ rest[1] = "." /\ IsDigit(rest[2])
  IN IF k = 0 /\ ~hasFraction THEN NaN
     ELSE Num(Sign(s) * (10 * DigitsValue(SubSeq(u, 1, k))
                         + (IF hasFraction THEN DigitValue(rest[2]) ELSE 0)))

\* searchParams.get(name): the text or null
Param(search, name) == IF name \in DOMAIN search THEN search[name] ELSE Missing

QueryResponse(status, success, error, data, filters, n) ==
  [uncaught |-> FALSE, status |-> status, success |-> success, error |-> error,
   data |-> data, filters |-> filters, n |-> n]

BadRequest(msg) == QueryResponse(400, "absent", <<msg>>, NoData, << >>, 0)

\* the filters object the handler builds: text fields, then numbers
TextFilters(search) ==
  [n \in { m \in {"creator", "subject", "predicate", "object"} : Truthy(Param(search, m)) }
     |-> JStr(search[n])]

NumberFilters(search) ==
  [n \in { m \in {"minConfidence", "fromTimestamp", "toTimestamp", "limit", "offset"} :
           Truthy(Param(search, m)) }
     |-> JNum(IF n = "minConfidence" THEN parseFloat(search[n]).n10
              ELSE parseInt(search[n]).n10)]

Merge(f, h) == [n \in (DOMAIN f) \cup (DOMAIN h) |-> IF n \in DOMAIN f THEN f[n] ELSE h[n]]

Given(search, name) == Truthy(Param(search, name))

AttestationsGET(im, g, up, search) ==
  IF Given(search, "minConfidence")
     /\ (parseFloat(search.minConfidence).nan \/ parseFloat(search.minConfidence).n10 < 0
         \/ parseFloat(search.minConfidence).n10 > 10)
    THEN BadRequest("minConfidence must be a number between 0 and 1")
  ELSE IF Given(search, "fromTimestamp") /\ parseInt(search.fromTimestamp).nan
    THEN BadRequest("fromTimestamp must be a valid Unix timestamp")
  ELSE IF Given(search, "toTimestamp") /\ parseInt(search.toTimestamp).nan
    THEN BadRequest("toTimestamp must be a valid Unix timestamp")
  ELSE IF Given(search, "limit")
          /\ (parseInt(search.limit).nan \/ parseInt(search.limit).n10 < 10
              \/ parseInt(search.limit).n10 > 10000)
    THEN BadRequest("limit must be a number between 1 and 1000")
  ELSE IF Given(search, "offset")
          /\ (parseInt(search.offset).nan \/ parseInt(search.offset).n10 < 0)
    THEN BadRequest("offset must be a non-negative number")
  ELSE LET filters == Merge(TextFilters(search), NumberFilters(search))
           result == getAttestations(im, g, up, filters)
       IN IF result.ok
          THEN QueryResponse(200, "true", <<>>, Data(result.value), filters, result.n)
          ELSE QueryResponse(500, "false",
                             IF result.thrown.isError THEN result.thrown.message
                             ELSE <<"Failed to fetch attestations">>,
                             NoData, << >>, result.n)

(***************************************************************************)
(* GET /api/trust-score: app/api/trust-score/route.ts, which resolves its  *)
(* input with resolveAddressOrENS of lib/intuition/ens, and                *)
(* src/unnamed/part_003, which tests it against the address pattern        *)
(***************************************************************************)
IsBlank(c) == c = " "

\* String.prototype.trim
RECURSIVE TrimStart(_)
TrimStart(s) == IF s # <<>> /\ IsBlank(Head(s)) THEN TrimStart(Tail(s)) ELSE s

RECURSIVE TrimEnd(_)
TrimEnd(s) ==
  IF s # <<>> /\ IsBlank(s[Len(s)]) THEN TrimEnd(SubSeq(s, 1, Len(s) - 1)) ELSE s

trim(s) == TrimEnd(TrimStart(s))

startsWith(s, prefix) == Len(s) >= Len(prefix) /\ SubSeq(s, 1, Len(prefix)) = prefix

Resolution(address, isENS, error) == [address |-> address, isENS |-> isENS, error |-> error]

\* resolveAddressOrENS; ens is what the name service does with a name: it
\* finds the address AddrAUpper, finds nothing, or fails
resolveAddressOrENS(input, ens) ==
  LET cleaned == trim(input)
  IN IF startsWith(cleaned, <<"0","x">>) /\ Len(cleaned) = 2 + HexLen
       THEN Resolution(toLowerCase(cleaned), FALSE, Missing)
     ELSE IF includes(cleaned, <<".">>)
       THEN CASE ens = "found" -> Resolution(toLowerCase(AddrAUpper), TRUE, Missing)
              [] ens = "notFound" ->
                   Resolution(Missing, TRUE, <<"ENS name not found or not registered">>)
              [] ens = "fails" -> Resolution(Missing, TRUE, <<"Failed to resolve ENS name">>)
     ELSE Resolution(Missing, FALSE,
                     <<"Invalid input. Please enter an Ethereum address (0x...) or ENS name (vitalik.eth)">>)

NotInvoked == [present |-> FALSE]

InvokedWith(address) == [present |-> TRUE, address |-> address]

\* NextResponse.json(body, { status }); invoked is the address getTrustScore
\* was called with, n the number of requests to the graph service
ScoreResponse(status, success, error, data, invoked, n) ==
  [uncaught |-> FALSE, status |-> status, success |-> success, error |-> error,
   data |-> data, invoked |-> invoked, n |-> n]

\* the call of the client and the answer that follows it
ScoreOf(im, g, up, address) ==
  LET r == getTrustScore(im, g, up, address)
  IN IF r.ok THEN ScoreResponse(200, "true", <<>>, Data(r.value), InvokedWith(address), r.n)
     ELSE ScoreResponse(500, "false",
                        IF r.thrown.isError THEN r.thrown.message
                        ELSE <<"Failed to fetch trust score">>,
                        NoData, InvokedWith(address), r.n)

\* GET of app/api/trust-score/route.ts; input is the address or ens parameter
TrustScoreGETResolving(im, g, up, input, ens) ==
  IF ~Truthy(input)
    THEN ScoreResponse(400, "absent", <<"Missing required parameter: address or ens">>,
                       NoData, NotInvoked, 0)
  ELSE LET resolution == resolveAddressOrENS(input, ens)
       IN IF ~Truthy(resolution.address)
          THEN ScoreResponse(400, "absent",
                             IF Truthy(resolution.error) THEN resolution.error
                             ELSE <<"Invalid address or ENS name">>,
                             NoData, NotInvoked, 0)
          ELSE ScoreOf(im, g, up, resolution.address)

\* GET of src/unnamed/part_003
TrustScoreGETPattern(im, g, up, input) ==
  IF ~Truthy(input)
    THEN ScoreResponse(400, "absent", <<"Missing required parameter: address">>,
                       NoData, NotInvoked, 0)
  ELSE IF ~addressRegex(input)
    THEN ScoreResponse(400, "absent", <<"Invalid Ethereum address format">>,
                       NoData, NotInvoked, 0)
  ELSE ScoreOf(im, g, up, input)

\* the score endpoint as deployed: the route that resolves names or the one
\* that tests the pattern
TrustScoreGET(route, im, g, up, input, ens) ==
  IF route = "resolving" THEN TrustScoreGETResolving(im, g, up, input, ens)
  ELSE TrustScoreGETPattern(im, g, up, input)

(***************************************************************************)
(* The listings: the tools array of lib/mcp/tools.ts, which the ListTools  *)
(* handler returns, and GET /api/mcp (src/unnamed/part_002)                *)
(***************************************************************************)
NoExample == [present |-> FALSE]

Example(tool, params) == [present |-> TRUE, tool |-> tool, params |-> params]

\* one entry of a listing; schema names the declared parameters and the
\* required ones
ToolEntry(name, description, properties, required, example) ==
  [name |-> name, description |-> description,
   schema |-> [properties |-> properties, required |-> required],
   example |-> example]

AttestationFilterNames ==
  {"creator", "subject", "predicate", "object", "minConfidence",
   "fromTimestamp", "toTimestamp", "limit", "offset"}

\* export const tools = [...]
tools ==
  << ToolEntry("getTrustScore",
               "Get the trust score for an Ethereum address based on Intuition attestations. Returns a comprehensive trust score with breakdown by credibility, expertise, reliability, and reputation.",
               {"address"}, {"address"}, NoExample),
     ToolEntry("getAttestations",
               "Query attestations from the Intuition graph with optional filters. Returns attestations (triples) that match the specified criteria.",
               AttestationFilterNames, {}, NoExample),
     ToolEntry("verifyCredential",
               "Verify if an address has a specific credential or claim on the Intuition network. Returns verification status with supporting attestations.",
               {"address", "claim"}, {"address", "claim"}, NoExample),
     ToolEntry("findTrustedExperts",
               "Find the most trusted experts in a specific topic or domain based on Intuition attestations. Returns ranked list of experts with their trust scores.",
               {"topic", "limit"}, {"topic"}, NoExample) >>

\* the ListToolsRequestSchema handler
ListToolsResult == [uncaught |-> FALSE, tools |-> tools]

\* '0x1234567890123456789012345678901234567890'
ExampleAddress ==
  <<"0","x">> \o [i \in 1..HexLen |-> Digits[(i % 10) + 1]]

wExpertInDefi == <<"e","x","p","e","r","t","-","i","n","-","d","e","f","i">>

\* GET /api/mcp
GET ==
  [uncaught |-> FALSE, status |-> 200, success |-> "true",
   tools |->
     << ToolEntry("getTrustScore", "Get trust score for an Ethereum address",
                  {"address"}, {"address"},
                  Example("getTrustScore", JObj([address |-> JStr(ExampleAddress)]))),
        ToolEntry("getAttestations", "Query attestations with filters",
                  AttestationFilterNames, {},
                  Example("getAttestations",
                          JObj([subject |-> JStr(ExampleAddress), limit |-> JNum(500)]))),
        ToolEntry("verifyCredential", "Verify if an address has a specific credential",
                  {"address", "claim"}, {"address", "claim"},
                  Example("verifyCredential",
                          JObj([address |-> JStr(ExampleAddress), claim |-> JStr(wExpertInDefi)]))),
        ToolEntry("findTrustedExperts", "Find trusted experts in a topic",
                  {"topic", "limit"}, {"topic"},
                  Example("findTrustedExperts",
                          JObj([topic |-> JStr(<<"s","o","l","i","d","i","t","y">>),
                                limit |-> JNum(100)]))) >>]

(***************************************************************************)
(* Requests                                                                *)
(***************************************************************************)
ParamsCommon == { JAbsent, JNull, JStr(wDefi), JArr, EmptyObject }

TrustScoreParams ==
  { JObj([address |-> JStr(AddrA)]), JObj([address |-> JStr(AddrAUpper)]),
    JObj([address |-> JStr(AddrB)]), JObj([address |-> JStr(AddrShort)]),
    JObj([address |-> JNum(10)]) }

AttestationsParams ==
  { JObj([limit |-> JNum(0)]), JObj([limit |-> JNum(10010)]), JObj([limit |-> JNum(10)]),
    JObj([limit |-> JNum(15)]), JObj([subject |-> JStr(AddrA), limit |-> JNum(10000)]),
    JObj([offset |-> JNum(-10)]), JObj([offset |-> JNum(10)]),
    JObj([minConfidence |-> JNum(20)]),
    JObj([minConfidence |-> JNum(5), predicate |-> JStr(wExpertLower)]),
    JObj([creator |-> JStr(AddrA)]),
    JObj([limit |-> JNum(0), offset |-> JNum(-10), toTimestamp |-> JStr(wDefi)]),
    JObj([minConfidence |-> JNum(10)]),
    JObj([fromTimestamp |-> JNum(50)]) }

CredentialParams ==
  { JObj([address |-> JStr(AddrA), claim |-> JStr(wExpertLower)]),
    JObj([address |-> JStr(AddrA), claim |-> JStr(wWild)]),
    JObj([address |-> JStr(AddrShort), claim |-> JStr(<<>>)]),
    JObj([address |-> JStr(AddrB), claim |-> JStr(kwTrust)]),
    JObj([address |-> JStr(AddrAUpper), claim |-> JStr(wDefi)]) }

ExpertsParams ==
  { JObj([topic |-> JStr(wExpertLower)]),
    JObj([topic |-> JStr(wDefi), limit |-> JNum(10)]),
    JObj([topic |-> JStr(wSkill), limit |-> JNum(25)]),
    JObj([topic |-> JStr(<<>>)]),
    JObj([topic |-> JStr(wDefi), limit |-> JNum(0)]),
    JObj([topic |-> JStr(wDefi), limit |-> JNum(1010)]),
    JObj([topic |-> JStr(<<>>), limit |-> JNum(0)]) }

ToolRequest(body, tool, params) ==
  [kind |-> "tool", body |-> body, tool |-> tool, params |-> params]

ToolRequests ==
  { ToolRequest("json", ToolName("getTrustScore"), p) : p \in ParamsCommon \cup TrustScoreParams }
  \cup { ToolRequest("json", ToolName("getAttestations"), p) :
           p \in ParamsCommon \cup AttestationsParams }
  \cup { ToolRequest("json", ToolName("verifyCredential"), p) :
           p \in ParamsCommon \cup CredentialParams }
  \cup { ToolRequest("json", ToolName("findTrustedExperts"), p) :
           p \in ParamsCommon \cup ExpertsParams }
  \cup { ToolRequest("json", ToolName("deleteAttestation"), p) :
           p \in ParamsCommon \cup { JObj([address |-> JStr(AddrA)]) } }
  \cup { ToolRequest("json", ToolName(""), p) : p \in { JAbsent, EmptyObject } }
  \cup { ToolRequest("json", NoTool, EmptyObject),
         ToolRequest("null", NoTool, JAbsent),
         ToolRequest("unparsable", NoTool, JAbsent) }

QueryRequest(search) == [kind |-> "query", search |-> search]

Searches ==
  { [n \in {} |-> <<>>],
    [limit |-> <<"0">>], [limit |-> <<"1","0","0","1">>], [limit |-> <<"1">>],
    [limit |-> <<"a","b","c">>], [limit |-> <<"2","x">>], [limit |-> <<>>],
    [offset |-> <<"-","1">>], [offset |-> <<"1">>],
    [minConfidence |-> <<"1",".","5">>], [minConfidence |-> <<"0",".","5">>],
    [minConfidence |-> <<"h","i">>],
    [subject |-> AddrA, limit |-> <<"1","0","0","0">>],
    [predicate |-> wExpertLower, fromTimestamp |-> <<"n","o","w">>],
    [creator |-> AddrA, toTimestamp |-> <<"5">>] }

QueryRequests == { QueryRequest(s) : s \in Searches }

Requests == ToolRequests \cup QueryRequests

NoReq == [kind |-> "none"]

Upstreams == {"ok", "error", "nonError"}

Impls == {"graphql", "memory"}

(***************************************************************************)
(* The state machine: a client sends one request, each entry point that    *)
(* accepts it answers it once, then the next request may be sent, over a   *)
(* new MCP session.                                                        *)
(***************************************************************************)
Pending == [pending |-> TRUE]

Answered(shape) == "pending" \notin DOMAIN resp[shape]

\* nothing answered yet: POST and GET of /api/mcp, CallTool and ListTools of
\* the MCP session, GET /api/attestations, GET /api/trust-score
NoAnswers ==
  [post |-> Pending, mcp |-> Pending, query |-> Pending, get |-> Pending, list |-> Pending,
   score |-> Pending]

\* the invocations that may be in flight together
Invocations == {"one", "two"}

\* an invocation that has not arrived
NoTask == [pc |-> "idle"]

\* no invocation in flight
NoTasks == [i \in Invocations |-> NoTask]

Idle ==
  /\ req = NoReq
  /\ upstream = "ok"
  /\ resp = NoAnswers
  /\ calls = [post |-> 0, mcp |-> 0, query |-> 0]
  /\ session = FreshSession
  /\ tasks = NoTasks

Init ==
  /\ graph \in Graphs
  /\ impl \in Impls
  /\ Idle

NewRequest ==
  /\ req = NoReq
  /\ req' \in Requests
  /\ upstream' \in Upstreams
  /\ UNCHANGED <<graph, impl, resp, calls, session, tasks>>

PostTool ==
  /\ req.kind = "tool"
  /\ ~Answered("post")
  /\ LET r == POST(impl, graph, upstream, req.body, req.tool, req.params)
     IN /\ resp' = [resp EXCEPT !.post = r]
        /\ calls' = [calls EXCEPT !.post = r.n]
  /\ UNCHANGED <<graph, impl, req, upstream, session, tasks>>

\* the session can hand the request to the CallTool handler: the SDK hands it
\* a request whose name is a string
CanCallTool ==
  /\ req.kind = "tool"
  /\ req.body = "json"
  /\ req.tool.t = "name"
  /\ ~Answered("mcp")
  /\ session.running

McpCallTool ==
  /\ CanCallTool
  /\ LET r == CallTool(impl, graph, upstream, req.tool.name, req.params)
     IN /\ resp' = [resp EXCEPT !.mcp = r]
        /\ calls' = [calls EXCEPT !.mcp = r.n]
        /\ session' = AfterCall(session, r)
  /\ UNCHANGED <<graph, impl, req, upstream, tasks>>

QueryAttestations ==
  /\ req.kind = "query"
  /\ ~Answered("query")
  /\ LET r == AttestationsGET(impl, graph, upstream, req.search)
     IN /\ resp' = [resp EXCEPT !.query = r]
        /\ calls' = [calls EXCEPT !.query = r.n]
  /\ UNCHANGED <<graph, impl, req, upstream, session, tasks>>

NextRequest ==
  /\ req # NoReq
  /\ Answered("post") \/ Answered("mcp") \/ Answered("query")
  /\ req' = NoReq
  /\ upstream' = "ok"
  /\ resp' = NoAnswers
  /\ calls' = [post |-> 0, mcp |-> 0, query |-> 0]
  /\ session' = FreshSession
  /\ UNCHANGED <<graph, impl, tasks>>

Next ==
  \/ NewRequest
  \/ PostTool
  \/ McpCallTool
  \/ QueryAttestations
  \/ NextRequest

Spec == Init /\ [][Next]_vars

(***************************************************************************)
(* Expert ranking over longer streams: five subjects, each with 0 to       *)
(* MaxMatch + 1 matching attestations, interleaved round by round.  The    *)
(* objects of the first two subjects carry sentiment keywords.             *)
(***************************************************************************)
wSolidity == <<"s","o","l","i","d","i","t","y">>

Subjects == << <<"0","x","s","1">>, <<"0","x","s","2">>, <<"0","x","s","3">>,
               <<"0","x","s","4">>, <<"0","x","s","5">> >>

Numeral(i) ==
  IF i < 10 THEN <<Digits[i + 1]>> ELSE <<Digits[(i \div 10) + 1], Digits[(i % 10) + 1]>>

\* the subjects of the stream: round r holds every subject with at least r matches
RECURSIVE Rounds(_, _)
Rounds(c, r) ==
  IF r > MaxMatch + 1 THEN <<>>
  ELSE SelectSeq([k \in 1..Len(Subjects) |-> k], LAMBDA k : c[k] >= r) \o Rounds(c, r + 1)

\* the object text of the attestations about the k-th subject
ObjectOf(k) == IF k = 1 THEN wScam ELSE IF k = 2 THEN wExpertLower ELSE wDefi

\* the stream whose i-th record is about the subject ks[i], newest first
StreamOf(ks) ==
  [i \in 1..Len(ks) |->
     Triple(<<"e">> \o Numeral(i), <<"0","x","c">>, (Len(ks) - i + 1) * 1000,
            Node(Subjects[ks[i]], Missing, Missing),
            Node(Missing, wSolidity, Missing),
            Node(Missing, ObjectOf(ks[i]), Missing))]

Reverse(s) == [i \in 1..Len(s) |-> s[Len(s) - i + 1]]

ExpertStream(c) == StreamOf(Rounds(c, 1))

\* the same attestations in the opposite order: the last subject is seen first
ReversedStream(c) == StreamOf(Reverse(Rounds(c, 1)))

\* small match counts with ties and zeros; the last subject has one match
TieVectors ==
  { [k \in 1..Len(Subjects) |-> IF k = Len(Subjects) THEN 1 ELSE c[k]] :
      c \in [1..(Len(Subjects) - 1) -> 0..MaxTie] }

\* match counts per subject: all different, or small with ties and zeros, or
\* one subject with more matches than the score has room for
CountVectors ==
  { c \in [1..Len(Subjects) -> 1..Len(Subjects)] :
      \A j, k \in 1..Len(Subjects) : j # k => c[j] # c[k] }
  \cup TieVectors
  \cup { [k \in 1..Len(Subjects) |-> IF k = j THEN MaxMatch + 1 ELSE 1] :
           j \in 1..Len(Subjects) }

ExpertStreams ==
  { ExpertStream(c) : c \in CountVectors }
  \cup { ReversedStream(c) : c \in [1..Len(Subjects) -> 0..1] }

ExpertRequests ==
  { ToolRequest("json", ToolName("findTrustedExperts"), p) :
      p \in { JObj([topic |-> JStr(wSolidity), limit |-> JNum(20)]),
              JObj([topic |-> JStr(wSolidity), limit |-> JNum(10)]),
              JObj([topic |-> JStr(wSolidity)]) } }

InitExperts ==
  /\ graph \in ExpertStreams
  /\ impl \in Impls
  /\ req \in ExpertRequests
  /\ upstream = "ok"
  /\ resp = NoAnswers
  /\ calls = [post |-> 0, mcp |-> 0, query |-> 0]
  /\ session = FreshSession
  /\ tasks = NoTasks

NextExperts ==
  \/ PostTool
  \/ McpCallTool

SpecExperts == InitExperts /\ [][NextExperts]_vars

(***************************************************************************)
(* One MCP session and the HTTP route serving a sequence of requests: tool *)
(* calls and listings.  The session outlives each request.                 *)
(***************************************************************************)
ListRequest == [kind |-> "list"]

SessionGraphs == { g \in Graphs : Len(g) <= 1 }

SessionRequests ==
  { ToolRequest("json", ToolName("getTrustScore"), p) :
      p \in { JAbsent, JObj([address |-> JStr(AddrA)]), JObj([address |-> JStr(AddrShort)]) } }
  \cup { ToolRequest("json", ToolName("getAttestations"), p) :
           p \in { JAbsent, JObj([limit |-> JNum(0)]) } }
  \cup { ToolRequest("json", ToolName("verifyCredential"), p) :
           p \in { JObj([address |-> JStr(AddrA), claim |-> JStr(wExpertLower)]) } }
  \cup { ToolRequest("json", ToolName("findTrustedExperts"), p) :
           p \in { JObj([topic |-> JStr(wDefi), limit |-> JNum(10)]) } }
  \cup { ToolRequest("json", ToolName("deleteAttestation"), p) :
           p \in { JObj([address |-> JStr(AddrA)]) } }
  \cup { ListRequest }

InitSession ==
  /\ graph \in SessionGraphs
  /\ impl \in Impls
  /\ Idle

NewSessionRequest ==
  /\ req = NoReq
  /\ req' \in SessionRequests
  /\ upstream' \in Upstreams
  /\ UNCHANGED <<graph, impl, resp, calls, session, tasks>>

\* GET /api/mcp
GetTools ==
  /\ req.kind = "list"
  /\ ~Answered("get")
  /\ resp' = [resp EXCEPT !.get = GET]
  /\ UNCHANGED <<graph, impl, req, upstream, calls, session, tasks>>

\* the session can hand the request to the ListTools handler
CanListTools ==
  /\ req.kind = "list"
  /\ ~Answered("list")
  /\ session.running

\* a ListTools request of the MCP session
ListTools ==
  /\ CanListTools
  /\ resp' = [resp EXCEPT !.list = ListToolsResult]
  /\ UNCHANGED <<graph, impl, req, upstream, calls, session, tasks>>

\* the next request of the same session
NextInSession ==
  /\ req # NoReq
  /\ \E shape \in DOMAIN resp : Answered(shape)
  /\ req' = NoReq
  /\ upstream' = "ok"
  /\ resp' = NoAnswers
  /\ calls' = [post |-> 0, mcp |-> 0, query |-> 0]
  /\ UNCHANGED <<graph, impl, session, tasks>>

NextSession ==
  \/ NewSessionRequest
  \/ PostTool
  \/ McpCallTool
  \/ GetTools
  \/ ListTools
  \/ NextInSession

SpecSession == InitSession /\ [][NextSession]_vars

(***************************************************************************)
(* Invocations in flight at the same time.  A handler is an async function:*)
(* it validates, awaits the request to the graph service, and scores what  *)
(* came back; between these steps the handlers of other invocations run.   *)
(***************************************************************************)
NotFetched == [fetched |-> FALSE]

Seen(g) == [fetched |-> TRUE, g |-> g]

\* an invocation that has just arrived; up is how the service will answer it
NewTask(shape, tool, params, up) ==
  [shape |-> shape, tool |-> tool, params |-> params, up |-> up,
   pc |-> "validate", seen |-> NotFetched, overlapped |-> FALSE, result |-> Pending]

\* the whole handler of the call shape
Answer(shape, im, g, up, tool, params) ==
  IF shape = "post" THEN POST(im, g, up, "json", ToolName(tool), params)
  ELSE CallTool(im, g, up, tool, params)

LocalsShared(ts, i) == ts[CHOOSE j \in DOMAIN ts : ts[j].pc # "idle"]

\* what the handler of the i-th invocation holds in its local variables
Locals(ts, i) == ts[i]

\* the invocations that arrive, each with the outcome of its request to the
\* service
Arrival(tool, params, up) == [tool |-> tool, params |-> params, up |-> up]

Arrivals ==
  { Arrival("getTrustScore", JObj([address |-> JStr(AddrA)]), "ok"),
    Arrival("getTrustScore", JObj([address |-> JStr(AddrShort)]), "ok"),
    Arrival("verifyCredential",
            JObj([address |-> JStr(AddrA), claim |-> JStr(wExpertLower)]), "ok"),
    Arrival("findTrustedExperts", JObj([topic |-> JStr(wExpertLower)]), "error") }

\* graphs of one attestation about the address the arrivals ask for
ConcurrentGraphs == { g \in SessionGraphs : Len(g) = 1 /\ g[1].subject = Node(AddrA, Missing, Missing) }

InitConcurrent ==
  /\ graph \in ConcurrentGraphs
  /\ impl \in Impls
  /\ Idle

\* an invocation arrives through either call shape
Receive ==
  /\ \E i \in Invocations, shape \in {"post", "mcp"}, a \in Arrivals :
       /\ tasks[i].pc = "idle"
       /\ tasks' = [tasks EXCEPT ![i] = NewTask(shape, a.tool, a.params, a.up)]
  /\ UNCHANGED <<graph, impl, req, upstream, resp, calls, session>>

\* the handler up to the request to the service: the checks of the entry point
\* and the validator, which read neither the graph nor the service
Validate(i) ==
  /\ tasks[i].pc = "validate"
  /\ LET own == Locals(tasks, i)
         early == Answer(own.shape, impl, << >>, "ok", own.tool, own.params)
     IN tasks' = IF early.n = 0
                 THEN [tasks EXCEPT ![i].pc = "done", ![i].result = early]
                 ELSE [tasks EXCEPT ![i].pc = "fetch"]
  /\ UNCHANGED <<graph, impl, req, upstream, resp, calls, session>>

\* await this.client.request(...): the service answers from the graph
Fetch(i) ==
  /\ tasks[i].pc = "fetch"
  /\ tasks' = [tasks EXCEPT ![i].pc = "score",
                            ![i].seen = Seen(graph),
                            ![i].overlapped =
                              \E j \in Invocations :
                                j # i /\ tasks[j].pc \in {"fetch", "score"}]
  /\ UNCHANGED <<graph, impl, req, upstream, resp, calls, session>>

\* the handler after the await: it maps and scores what it fetched
Score(i) ==
  /\ tasks[i].pc = "score"
  /\ LET own == Locals(tasks, i)
     IN tasks' = [tasks EXCEPT ![i].pc = "done",
                               ![i].result = Answer(own.shape, impl, own.seen.g, own.up,
                                                    own.tool, own.params)]
  /\ UNCHANGED <<graph, impl, req, upstream, resp, calls, session>>

NextConcurrent ==
  \/ Receive
  \/ \E i \in Invocations : Validate(i)
  \/ \E i \in Invocations : Fetch(i)
  \/ \E i \in Invocations : Score(i)

SpecConcurrent == InitConcurrent /\ [][NextConcurrent]_vars

(***************************************************************************)
(* Expert ranking over many subjects: up to MaxExperts subjects with one   *)
(* matching attestation each, more than the default limit lets through.    *)
(***************************************************************************)
MaxExperts == 12

\* n attestations about n subjects, newest first
WideStream(n) ==
  [i \in 1..n |->
     Triple(<<"w">> \o Numeral(i), <<"0","x","c">>, (n - i + 1) * 1000,
            Node(<<"0","x","w">> \o Numeral(i), Missing, Missing),
            Node(Missing, wSolidity, Missing),
            Node(Missing, wDefi, Missing))]

WideStreams == { WideStream(n) : n \in 0..MaxExperts }

WideParams ==
  { JAbsent, JNull, JStr(wSolidity), EmptyObject,
    JObj([topic |-> JStr(wSolidity)]),
    JObj([topic |-> JStr(wSolidity), limit |-> JNum(10)]),
    JObj([topic |-> JStr(wSolidity), limit |-> JNum(25)]),
    JObj([topic |-> JStr(wSolidity), limit |-> JNum(110)]),
    JObj([topic |-> JStr(wSolidity), limit |-> JNum(1000)]),
    JObj([topic |-> JStr(wSolidity), limit |-> JNum(1010)]),
    JObj([topic |-> JStr(wSolidity), limit |-> JNum(0)]),
    JObj([topic |-> JStr(wSolidity), limit |-> JNum(-10)]),
    JObj([topic |-> JStr(wSolidity), limit |-> JStr(<<"5">>)]),
    JObj([topic |-> JStr(wSolidity), limit |-> JNull]),
    JObj([topic |-> JStr(<<>>)]),
    JObj([topic |-> JNum(10)]),
    JObj([limit |-> JNum(50)]) }

WideRequests == { ToolRequest("json", ToolName("findTrustedExperts"), p) : p \in WideParams }

InitWide ==
  /\ graph \in WideStreams
  /\ impl \in Impls
  /\ req \in WideRequests
  /\ upstream = "ok"
  /\ resp = NoAnswers
  /\ calls = [post |-> 0, mcp |-> 0, query |-> 0]
  /\ session = FreshSession
  /\ tasks = NoTasks

NextWide ==
  \/ PostTool
  \/ McpCallTool

SpecWide == InitWide /\ [][NextWide]_vars

(***************************************************************************)
(* The score endpoint serving one request after the other                  *)
(***************************************************************************)
\* '0x' followed by forty characters that are not all hexadecimal digits
AddrNotHex == <<"0","x">> \o [i \in 1..HexLen |-> IF i = 1 THEN "z" ELSE "a"]

wVitalikEth == <<"v","i","t","a","l","i","k",".","e","t","h">>

ScoreInputs ==
  { Missing, <<>>, AddrA, AddrAUpper, AddrB, AddrShort, AddrNotHex,
    Space \o AddrA \o Space, AddrA \o <<"0">>, wVitalikEth, wAlice,
    <<"0","x">> \o wVitalikEth }

ScoreRequest(route, input, ens) ==
  [kind |-> "score", route |-> route, input |-> input, ens |-> ens]

ScoreRequests ==
  { ScoreRequest(route, input, ens) :
      route \in {"resolving", "pattern"}, input \in ScoreInputs,
      ens \in {"found", "notFound", "fails"} }

InitScore ==
  /\ graph \in SessionGraphs
  /\ impl \in Impls
  /\ Idle

NewScoreRequest ==
  /\ req = NoReq
  /\ req' \in ScoreRequests
  /\ upstream' \in Upstreams
  /\ UNCHANGED <<graph, impl, resp, calls, session, tasks>>

GetTrustScore ==
  /\ req.kind = "score"
  /\ ~Answered("score")
  /\ resp' = [resp EXCEPT !.score =
                TrustScoreGET(req.route, impl, graph, upstream, req.input, req.ens)]
  /\ UNCHANGED <<graph, impl, req, upstream, calls, session, tasks>>

NextScore ==
  \/ NewScoreRequest
  \/ GetTrustScore
  \/ NextInSession

SpecScore == InitScore /\ [][NextScore]_vars

(***************************************************************************)
(* The score of an address before and after one more attestation about it  *)
(* is written to the graph: POST answers before, the MCP session after.    *)
(***************************************************************************)
MaxEvidence == 3

EvidenceKinds == {"positive", "negative", "both", "neutral"}

\* the i-th attestation about AddrA; its predicate and object carry a positive
\* keyword, a negative one, both or none
Evidence(i, kind) ==
  Triple(<<"v">> \o Numeral(i), AddrB, i * 1000, Node(AddrA, Missing, Missing),
         Node(Missing, IF kind \in {"positive", "both"} THEN wExpert ELSE wLikes, Missing),
         Node(Missing, IF kind \in {"negative", "both"} THEN wScam ELSE wDefi, Missing))

EvidenceSets ==
  UNION { { [i \in 1..n |-> Evidence(i, kinds[i])] : kinds \in [1..n -> EvidenceKinds] } :
            n \in 0..MaxEvidence }

InitEvidence ==
  /\ graph \in EvidenceSets
  /\ impl \in Impls
  /\ req = ToolRequest("json", ToolName("getTrustScore"), JObj([address |-> JStr(AddrA)]))
  /\ upstream = "ok"
  /\ resp = NoAnswers
  /\ calls = [post |-> 0, mcp |-> 0, query |-> 0]
  /\ session = FreshSession
  /\ tasks = NoTasks

\* one more attestation about the address is written to the graph the score
\* was computed from
Attest ==
  /\ Answered("post")
  /\ ~Answered("mcp")
  /\ resp.post.data.present
  /\ resp.post.data.v.attestationCount = Len(graph)
  /\ \E kind \in EvidenceKinds : graph' = Append(graph, Evidence(Len(graph) + 1, kind))
  /\ UNCHANGED <<impl, req, upstream, resp, calls, session, tasks>>

NextEvidence ==
  \/ PostTool
  \/ Attest
  \/ McpCallTool

SpecEvidence == InitEvidence /\ [][NextEvidence]_vars

(***************************************************************************)
(* Properties                                                              *)
(***************************************************************************)
ToolIs(name) == req.kind = "tool" /\ req.body = "json" /\ req.tool = ToolName(name)

\* the entry points that have answered the current dispatch with a result
Succeeded == { s \in {"post", "mcp"} : Answered(s) /\ resp[s].data.present }

\* the results the current request has produced for the tool `name`
Results(name) == IF ToolIs(name) THEN { resp[s].data.v : s \in Succeeded } ELSE {}

InRange(x) == FracLe(Zero, x) /\ FracLe(x, Hundred)

BreakdownOf(ts) ==
  { ts.breakdown.credibility, ts.breakdown.expertise,
    ts.breakdown.reliability, ts.breakdown.reputation }

\* C1: every TrustScore returned has its score and each of its four breakdown
\* values in [0,100], whatever keywords the attestations contain.
C1_ScoreClamped ==
  \A ts \in Results("getTrustScore") :
    InRange(ts.score) /\ \A b \in BreakdownOf(ts) : InRange(b)

\* a score over positive and negative attestations whose raw value is below 0
C1_Witness ==
  \E ts \in Results("getTrustScore") :
    /\ ts.positiveAttestations > 0
    /\ ts.negativeAttestations > 0
    /\ (ts.positiveAttestations - 2 * ts.negativeAttestations) * 100
         + 50 * ts.attestationCount < 0
    /\ FracEq(ts.score, Zero)

\* the address occurs in no text field of any record of the graph
OccursNowhere(address) ==
  \A i \in 1..Len(graph) :
    \A text \in { graph[i].creator_id, graph[i].subject_id, graph[i].object_id,
                  graph[i].subject.wallet_id, graph[i].subject.label, graph[i].subject.data,
                  graph[i].object.wallet_id, graph[i].object.label, graph[i].object.data } :
      ~includes(toLowerCase(text), toLowerCase(address))

AllZero(ts) ==
  /\ FracEq(ts.score, Zero)
  /\ ts.attestationCount = 0
  /\ ts.positiveAttestations = 0
  /\ ts.negativeAttestations = 0
  /\ \A b \in BreakdownOf(ts) : FracEq(b, Zero)

\* C2: a TrustScore over zero relevant attestations (none counted, or the
\* address occurring nowhere in the graph) has score 0, the three counts 0 and
\* the four breakdown values 0.
C2_ZeroWhenNoAttestations ==
  \A ts \in Results("getTrustScore") :
    (ts.attestationCount = 0 \/ OccursNowhere(ts.address)) => AllZero(ts)

\* a zero score computed over a graph that holds records, none of them relevant
C2_Witness ==
  \E ts \in Results("getTrustScore") :
    Len(graph) > 0 /\ OccursNowhere(ts.address) /\ AllZero(ts)

\* ((p - 2n) / c) * 100 + 50 clamped to [0,100]
ExpectedScore(p, n, c) ==
  LET raw == (p - 2 * n) * 100 + 50 * c
  IN IF raw < 0 THEN Frac(0, 1) ELSE IF raw > 100 * c THEN Frac(100, 1) ELSE Frac(raw, c)

\* the lower-cased texts of the predicate and of the object of a record
TextsOf(t) ==
  { toLowerCase(x) : x \in { t.predicate.label, t.predicate.data,
                             t.object.label, t.object.data } \ {Missing} }

PositiveOnly(t) ==
  /\ \E x \in TextsOf(t) : \E kw \in positiveKeywords : includes(x, kw)
  /\ \A x \in TextsOf(t) : \A kw \in negativeKeywords : ~includes(x, kw)

NegativeOnly(t) ==
  /\ \E x \in TextsOf(t) : \E kw \in negativeKeywords : includes(x, kw)
  /\ \A x \in TextsOf(t) : \A kw \in positiveKeywords : ~includes(x, kw)

\* the record names the address as its subject and in no other way
SubjectIs(t, address) ==
  /\ ~t.subject.isNull
  /\ t.subject.wallet_id # Missing
  /\ toLowerCase(t.subject.wallet_id) = toLowerCase(address)
  /\ t.subject.label = Missing
  /\ t.subject.data = Missing

\* the graph is one positive-only and one negative-only attestation about address
OnePositiveOneNegative(address) ==
  /\ Len(graph) = 2
  /\ \A i \in 1..2 : SubjectIs(graph[i], address)
  /\ \E i, j \in 1..2 : i # j /\ PositiveOnly(graph[i]) /\ NegativeOnly(graph[j])

C4_Claim ==
  \A ts \in Results("getTrustScore") :
    ts.positiveAttestations + ts.negativeAttestations <= ts.attestationCount

RECURSIVE Total(_)
Total(s) == IF s = <<>> THEN 0 ELSE Total(SubSeq(s, 1, Len(s) - 1)) + s[Len(s)]

\* C5: verified is true exactly when the returned attestations are not empty;
\* confidence is the mean of their confidence fields, and 0 when there are none.
C5_VerifiedIffNonEmpty ==
  \A v \in Results("verifyCredential") :
    /\ v.verified <=> Len(v.attestations) > 0
    /\ Len(v.attestations) > 0 =>
         v.confidence.num * Len(v.attestations)
           = Total([i \in 1..Len(v.attestations) |-> v.attestations[i].confidence])
               * v.confidence.den
    /\ Len(v.attestations) = 0 => FracEq(v.confidence, Zero)

\* a verification backed by two attestations
C5_Witness ==
  \E v \in Results("verifyCredential") : v.verified /\ Len(v.attestations) = 2

\* number of records of the graph about the k-th subject under the topic
MatchCount(k) ==
  Cardinality({ i \in 1..Len(graph) :
                  /\ graph[i].subject.wallet_id = Subjects[k]
                  /\ graph[i].predicate.label = wSolidity })

\* the limit of the current findTrustedExperts request, in tenths (default 10)
RequestedLimit ==
  IF "limit" \in DOMAIN req.params.f THEN req.params.f.limit.n10 ELSE 100

FiveDistinct ==
  /\ \A k \in 1..Len(Subjects) : MatchCount(k) >= 1
  /\ \A j, k \in 1..Len(Subjects) : j # k => MatchCount(j) # MatchCount(k)

SortedByCount(e) ==
  \A i \in 1..(Len(e) - 1) : e[i].attestationCount >= e[i + 1].attestationCount

NoDuplicates(e) == \A i, j \in 1..Len(e) : i # j => e[i].address # e[j].address

\* e is the two subjects with the most matches, the highest first
TopTwo(e) ==
  /\ Len(e) = 2
  /\ e[1].attestationCount > e[2].attestationCount
  /\ \A i \in 1..2 : \E k \in 1..Len(Subjects) :
       e[i].address = Subjects[k] /\ e[i].attestationCount = MatchCount(k)
  /\ \A k \in 1..Len(Subjects) :
       Subjects[k] \notin {e[1].address, e[2].address} => MatchCount(k) < e[2].attestationCount

\* C6: the list findTrustedExperts returns is sorted by non-increasing
\* attestationCount, has at most limit entries and no address twice; over five
\* subjects with distinct match counts and limit 2 it is the top two, highest first.
C6_ExpertsRanked ==
  \A e \in Results("findTrustedExperts") :
    /\ SortedByCount(e)
    /\ Len(e) * 10 <= RequestedLimit
    /\ NoDuplicates(e)
    /\ (FiveDistinct /\ RequestedLimit = 20) => TopTwo(e)

C6_Witness ==
  \E e \in Results("findTrustedExperts") :
    FiveDistinct /\ RequestedLimit = 20 /\ TopTwo(e)

\* the current dispatch names a tool outside the four
UnknownName ==
  /\ req.kind = "tool"
  /\ req.body = "json"
  /\ req.tool.t = "name"
  /\ req.tool.name # ""
  /\ ~IsKnownTool(req.tool.name)

\* the answer of an entry point lists the four valid names
NamesListed(shape) ==
  IF shape = "post" THEN resp.post.availableTools = ToolNames
  ELSE \A i \in 1..Len(ToolNames) :
         \E j \in 1..Len(resp.mcp.error) : resp.mcp.error[j] = ToolNames[i]

UnknownToolError(shape) ==
  /\ resp[shape].error = <<"Unknown tool: ", req.tool.name>>
  /\ ~resp[shape].data.present

ParamsIsObject == req.params.t \in {"object", "array"}

SchemaOf(name, params) ==
  CASE name = "getTrustScore" -> GetTrustScoreSchema(params)
    [] name = "getAttestations" -> GetAttestationsSchema(params)
    [] name = "verifyCredential" -> VerifyCredentialSchema(params)
    [] name = "findTrustedExperts" -> FindTrustedExpertsSchema(params)

KnownName == req.kind = "tool" /\ req.body = "json" /\ req.tool.t = "name"
             /\ IsKnownTool(req.tool.name)

\* the params the entry point hands to the validator
ParamsGiven(shape) ==
  IF shape = "mcp" /\ ~JTruthy(req.params) THEN EmptyObject ELSE req.params

ValidatorRejects(shape) == KnownName /\ ~SchemaOf(req.tool.name, ParamsGiven(shape)).ok

\* a number field of the params lies outside lo..hi (tenths)
Outside(name, lo, hi) ==
  /\ req.params.t = "object"
  /\ name \in DOMAIN req.params.f
  /\ req.params.f[name].t = "num"
  /\ (req.params.f[name].n10 < lo \/ req.params.f[name].n10 > hi)

AttestationsOutOfRange ==
  /\ ToolIs("getAttestations")
  /\ \/ Outside("limit", 10, 10000)
     \/ Outside("offset", 0, 10000000)
     \/ Outside("minConfidence", 0, 10)

ValidationAnswer(shape) ==
  IF shape = "post"
  THEN resp.post.status = 400 /\ resp.post.error = <<"Validation error">>
  ELSE resp.mcp.isError /\ resp.mcp.error[1] = "[issues] "

\* the query string gives a limit, offset or minConfidence out of range
SearchOutOfRange ==
  /\ req.kind = "query"
  /\ \/ /\ Given(req.search, "limit")
        /\ \/ parseInt(req.search.limit).nan
           \/ parseInt(req.search.limit).n10 < 10
           \/ parseInt(req.search.limit).n10 > 10000
     \/ /\ Given(req.search, "offset")
        /\ (parseInt(req.search.offset).nan \/ parseInt(req.search.offset).n10 < 0)
     \/ /\ Given(req.search, "minConfidence")
        /\ \/ parseFloat(req.search.minConfidence).nan
           \/ parseFloat(req.search.minConfidence).n10 < 0
           \/ parseFloat(req.search.minConfidence).n10 > 10

\* C8: when the validator rejects the params of a tool, and in particular a
\* getAttestations limit outside 1..1000, an offset below 0 or a minConfidence
\* outside [0,1], the call issues no request to the graph service; the same
\* holds for the query endpoint.
C8_NoRequestWhenRejected ==
  /\ \A shape \in {"post", "mcp"} :
       /\ (Answered(shape) /\ ValidatorRejects(shape)) => calls[shape] = 0
       /\ (Answered(shape) /\ AttestationsOutOfRange) =>
            (ValidationAnswer(shape) /\ calls[shape] = 0)
  /\ (Answered("query") /\ SearchOutOfRange) =>
       (resp.query.status = 400 /\ calls.query = 0)
  /\ (Answered("query") /\ resp.query.status = 400) => calls.query = 0

\* getAttestations with limit 0 or 1001 answered by both entry points while
\* the graph service is up
C8_Witness ==
  /\ ToolIs("getAttestations")
  /\ Outside("limit", 10, 10000)
  /\ upstream = "ok"
  /\ Len(graph) > 0
  /\ Answered("post")
  /\ Answered("mcp")
  /\ ValidationAnswer("post")
  /\ calls.post = 0

KindOfPost(r) ==
  IF r.status = 200 THEN "success"
  ELSE IF r.availableTools # <<>> THEN "unknown"
  ELSE IF r.status = 400 THEN "validation"
  ELSE "retrieval"

KindOfMcp(r) ==
  IF ~r.isError THEN "success"
  ELSE IF r.error[1] = "Unknown tool: " THEN "unknown"
  ELSE IF r.error[1] = "[issues] " THEN "validation"
  ELSE "retrieval"

\* C9 (as claimed): for every operation name and params the POST endpoint and
\* the CallTool handler produce the same kind of outcome, and the same data on
\* success, against the same graph.
C9_Claim ==
  (Answered("post") /\ Answered("mcp")) =>
    /\ KindOfPost(resp.post) = KindOfMcp(resp.mcp)
    /\ KindOfPost(resp.post) = "success" => resp.post.data = resp.mcp.data

SuccessEnvelope(shape) ==
  /\ resp[shape].data.present
  /\ resp[shape].error = <<>>
  /\ IF shape = "post" THEN resp.post.status = 200 /\ resp.post.success = "true"
     ELSE ~resp.mcp.isError

ErrorEnvelope(shape) ==
  /\ ~resp[shape].data.present
  /\ resp[shape].error # <<>>
  /\ IF shape = "post" THEN resp.post.status \in {400, 500} /\ resp.post.success # "true"
     ELSE resp.mcp.isError

\* the dispatch cannot succeed: unknown tool, rejected params or the graph
\* service failing
MustFail(shape) ==
  \/ req.body # "json"
  \/ req.tool.t # "name"
  \/ ~IsKnownTool(req.tool.name)
  \/ ValidatorRejects(shape)
  \/ upstream # "ok"

\* C10: every dispatch through POST or CallTool ends in a success envelope or
\* an error envelope, never both; no exception leaves the handler, and a
\* dispatch that fails is never answered with a success envelope.
C10_AlwaysAnEnvelope ==
  \A shape \in {"post", "mcp"} :
    Answered(shape) =>
      /\ ~resp[shape].uncaught
      /\ SuccessEnvelope(shape) \/ ErrorEnvelope(shape)
      /\ ~(SuccessEnvelope(shape) /\ ErrorEnvelope(shape))
      /\ MustFail(shape) => ErrorEnvelope(shape)

\* the transport throws a value that is not an Error during a valid dispatch
C10_Witness ==
  /\ KnownName
  /\ ~ValidatorRejects("post")
  /\ ParamsIsObject
  /\ upstream = "nonError"
  /\ Answered("post")
  /\ Answered("mcp")
  /\ ErrorEnvelope("post")
  /\ resp.post.status = 500
  /\ ErrorEnvelope("mcp")

\* the attestations the deployed client makes of the records of the graph
Fetched ==
  IF impl = "graphql" THEN [i \in 1..Len(graph) |-> ToAttestationGraphql(graph[i])]
  ELSE [i \in 1..Len(graph) |-> ToAttestationMemory(graph[i])]

\* the address is a case-insensitive substring of the subject, creator or object
Occurs(a, address) ==
  \E field \in {a.subject, a.creator, a.object} :
    includes(toLowerCase(field), toLowerCase(address))

\* C11 (as claimed): attestationCount of a TrustScore is the number of fetched
\* attestations in which the address occurs, case-insensitively, as a substring
\* of the subject, the creator or the object.
C11_Claim ==
  \A ts \in Results("getTrustScore") :
    ts.attestationCount
      = Cardinality({ i \in 1..Len(Fetched) : Occurs(Fetched[i], ts.address) })

\* the attestations the deployed client scores for an address: the predicate
\* text the category keywords are looked up in and the text the sentiment
\* keywords are looked up in
ScoredTexts(address) ==
  IF impl = "graphql"
  THEN LET rows == SelectSeq(graph, LAMBDA t :
                     ilike(Opt(t.subject, "wallet_id"), Wrap(toLowerCase(address))))
       IN [i \in 1..Len(rows) |->
             [predicate |-> predicateTextOf(rows[i]), text |-> combinedTextOf(rows[i])]]
  ELSE LET atts == SelectSeq(Fetched, LAMBDA a : isRelevant(a, address))
       IN [i \in 1..Len(atts) |->
             [predicate |-> toLowerCase(atts[i].predicate), text |-> textOf(atts[i])]]

CategoryKeywords ==
  [credibility |-> {kwCredib, kwTrust},
   expertise |-> {wExpertLower, kwSkill},
   reliability |-> {kwReliab, wVerified}]

\* the scored attestations whose predicate contains a keyword of the category
CategorySubset(address, category) ==
  SelectSeq(ScoredTexts(address),
            LAMBDA a : \E kw \in CategoryKeywords[category] : includes(a.predicate, kw))

\* the base-score formula over the subset of the category
CategoryScore(address, category) ==
  LET subset == CategorySubset(address, category)
  IN ExpectedScore(Cardinality({ i \in 1..Len(subset) : isPositive(subset[i].text) }),
                   Cardinality({ i \in 1..Len(subset) : isNegative(subset[i].text) }),
                   Len(subset))

\* C12 (as claimed): breakdown.credibility, breakdown.expertise and
\* breakdown.reliability each equal the base-score formula evaluated over the
\* relevant attestations whose predicate contains a keyword of the category,
\* with count the size of that subset (stated where the subset is not empty).
C12_Claim ==
  \A ts \in Results("getTrustScore") :
    \A category \in DOMAIN CategoryKeywords :
      Len(CategorySubset(ts.address, category)) > 0 =>
        FracEq(ts.breakdown[category], CategoryScore(ts.address, category))

\* the attestations verifyCredential of the deployed client makes of the records
Candidates ==
  IF impl = "graphql" THEN [i \in 1..Len(graph) |-> ToCredentialAttestation(graph[i])]
  ELSE Fetched

\* the claim is a case-insensitive substring of the predicate or of the object
ClaimOccurs(a, claim) ==
  \E field \in {a.predicate, a.object} :
    includes(toLowerCase(field), toLowerCase(claim))

Ids(s) == { s[i].id : i \in 1..Len(s) }

\* C13 (as claimed): verifyCredential(address, claim) returns exactly the
\* attestations in which the address occurs in subject, creator or object and
\* the claim occurs in predicate or object; none meeting one condition only is
\* returned, none meeting both is omitted.
C13_Claim ==
  \A v \in Results("verifyCredential") :
    Ids(v.attestations)
      = Ids(SelectSeq(Candidates, LAMBDA a :
              /\ Occurs(a, req.params.f.address.s)
              /\ ClaimOccurs(a, req.params.f.claim.s)))

\* the index of the subject an expert entry is about
SubjectIndex(address) == CHOOSE k \in 1..Len(Subjects) : Subjects[k] = address

\* min(50 + 10 * n, 100)
SaturatingScore(n) == IF 50 + 10 * n > 100 THEN 100 ELSE 50 + 10 * n

\* C14: every Expert returned by findTrustedExperts has
\* trustScore = min(50 + 10 * attestationCount, 100), attestationCount being
\* the number of topic-matching attestations with that subject; subjects with
\* the same count get the same trustScore whether their attestations carry a
\* positive keyword, a negative keyword or none.
C14_TrustScoreFromCount ==
  \A e \in Results("findTrustedExperts") :
    /\ \A i \in 1..Len(e) :
         /\ \E k \in 1..Len(Subjects) : e[i].address = Subjects[k]
         /\ e[i].attestationCount = MatchCount(SubjectIndex(e[i].address))
         /\ e[i].trustScore = SaturatingScore(MatchCount(SubjectIndex(e[i].address)))
    /\ \A i, j \in 1..Len(e) :
         e[i].attestationCount = e[j].attestationCount => e[i].trustScore = e[j].trustScore

\* the subject whose attestations say "scam" has more matches than the score
\* has room for and gets 100; a subject with one match gets 60
C14_Witness ==
  \E e \in Results("findTrustedExperts") :
    \E i, j \in 1..Len(e) :
      /\ e[i].address = Subjects[1]
      /\ 50 + 10 * MatchCount(1) > 100
      /\ e[i].trustScore = 100
      /\ e[j].attestationCount = 1
      /\ e[j].trustScore = 60

\* the attestations in the order the deployed client reads them
SourceStream == IF impl = "graphql" THEN OrderByCreatedDesc(graph) ELSE graph

\* position of the first matching attestation about the address in the stream
FirstSeen(address) ==
  LET at == { i \in 1..Len(SourceStream) :
                /\ SourceStream[i].subject.wallet_id = address
                /\ SourceStream[i].predicate.label = wSolidity }
  IN CHOOSE i \in at : \A j \in at : i <= j

\* a ranks before b: more matches, or as many and seen first
RanksBefore(a, b) ==
  \/ MatchCount(SubjectIndex(a)) > MatchCount(SubjectIndex(b))
  \/ /\ MatchCount(SubjectIndex(a)) = MatchCount(SubjectIndex(b))
     /\ FirstSeen(a) < FirstSeen(b)

Addresses(e) == { e[i].address : i \in 1..Len(e) }

\* the subjects with a matching attestation that the list leaves out
LeftOut(e) ==
  { Subjects[k] : k \in { j \in 1..Len(Subjects) : MatchCount(j) >= 1 } } \ Addresses(e)

\* C15: subjects with the same match count are listed in the order of their
\* first occurrence in the attestation stream, and the truncation to limit
\* comes after the ordering: every subject left out ranks after every subject
\* listed, and one is left out only when the list is full.
C15_TiesByFirstSeen ==
  \A e \in Results("findTrustedExperts") :
    /\ \A i, j \in 1..Len(e) : i < j => RanksBefore(e[i].address, e[j].address)
    /\ \A a \in Addresses(e) : \A b \in LeftOut(e) : RanksBefore(a, b)
    /\ LeftOut(e) # {} => Len(e) * 10 = RequestedLimit

\* a tie that the limit cuts: the subject listed last and a subject left out
\* have the same count, and the one seen first is not the one with the lower index
C15_Witness ==
  \E e \in Results("findTrustedExperts") :
    \E b \in LeftOut(e) :
      /\ Len(e) = 2
      /\ MatchCount(SubjectIndex(e[1].address)) = MatchCount(SubjectIndex(e[2].address))
      /\ MatchCount(SubjectIndex(e[2].address)) = MatchCount(SubjectIndex(b))
      /\ FirstSeen(e[1].address) < FirstSeen(e[2].address)
      /\ FirstSeen(e[2].address) < FirstSeen(b)
      /\ SubjectIndex(e[2].address) > SubjectIndex(b)

\* C16 (as claimed): every response of the tool-invocation endpoint is either
\* {success: true, tool, data} or carries success: false together with an
\* error field, on every failure path.
C16_Claim ==
  (req.kind = "tool" /\ Answered("post")) =>
    \/ resp.post.success = "true" /\ resp.post.data.present
    \/ resp.post.success = "false" /\ resp.post.error # <<>>

\* the tool request is at fault by itself: body that is not a JSON object, no
\* tool, params that are not an object, unknown tool, or params the schema rejects
ToolRequestAtFault ==
  /\ req.kind = "tool"
  /\ \/ req.body # "json"
     \/ ToolFalsy(req.tool)
     \/ ~JTruthy(req.params)
     \/ ~ParamsIsObject
     \/ ~IsKnownTool(req.tool.name)
     \/ ValidatorRejects("post")

\* the query string holds a filter value that is out of range or not a number
SearchAtFault ==
  \/ SearchOutOfRange
  \/ /\ req.kind = "query"
     /\ \E name \in {"fromTimestamp", "toTimestamp"} :
          Given(req.search, name) /\ parseInt(req.search[name]).nan

\* C17 (as claimed): on the query endpoint and on the tool-invocation endpoint
\* a request rejected because of caller input is answered with status 400 and
\* never 500, and a failure of the graph service is answered with status 500
\* and never 400.
C17_Claim ==
  /\ (Answered("post") /\ ToolRequestAtFault) => resp.post.status = 400
  /\ (Answered("post") /\ ~ToolRequestAtFault /\ upstream # "ok") => resp.post.status = 500
  /\ (Answered("query") /\ SearchAtFault) => resp.query.status = 400
  /\ (Answered("query") /\ ~SearchAtFault /\ upstream # "ok") => resp.query.status = 500

\* the entry point hands the current request to a client operation
Dispatched(shape) ==
  IF shape = "query" THEN req.kind = "query" /\ ~SearchAtFault
  ELSE KnownName /\ ~ValidatorRejects(shape)

\* the message of an error is made of the given text and something before it
Carries(error, message) ==
  /\ Len(error) = 2
  /\ error[1] \in {"Failed to fetch attestations: ", "Failed to calculate trust score: ",
                   "Failed to verify credential: ", "Failed to find experts: "}
  /\ error[2] = message

\* the Int variables of the request are whole numbers
WholeNumbers(shape) ==
  (shape # "query" /\ ToolIs("getAttestations")) =>
    \A name \in {"limit", "offset"} \cap DOMAIN ParamsGiven(shape).f :
      ParamsGiven(shape).f[name].n10 % 10 = 0

\* C18: when the request to the graph service fails, by a transport error or
\* by an error response, each of the four operations, however it is reached,
\* raises one error whose message contains the upstream message, and returns
\* no data at all.
C18_FailureIsWrapped ==
  \A shape \in {"post", "mcp", "query"} :
    (Answered(shape) /\ Dispatched(shape)) =>
      /\ upstream = "error" =>
           ~resp[shape].data.present /\ Carries(resp[shape].error, UpstreamMessage)
      /\ (upstream = "ok" /\ ~WholeNumbers(shape)) =>
           ~resp[shape].data.present /\ Carries(resp[shape].error, IntCoercionMessage)

\* a getTrustScore over a graph that holds relevant records fails as a whole
C18_Witness ==
  /\ ToolIs("getTrustScore")
  /\ Dispatched("post")
  /\ upstream = "error"
  /\ Len(graph) = MaxTriples
  /\ ~OccursNowhere(req.params.f.address.s)
  /\ Answered("post")
  /\ Answered("mcp")
  /\ Carries(resp.post.error, UpstreamMessage)
  /\ Carries(resp.mcp.error, UpstreamMessage)

\* C19: an operation that is dispatched with params that pass validation
\* issues exactly one request to the graph service, whether the request
\* succeeds or fails; a failed request is not retried.
C19_OneRequestPerCall ==
  \A shape \in {"post", "mcp", "query"} :
    (Answered(shape) /\ Dispatched(shape)) => calls[shape] = 1

\* a verifyCredential whose one request failed, answered by both entry points
C19_Witness ==
  /\ ToolIs("verifyCredential")
  /\ Dispatched("post")
  /\ upstream # "ok"
  /\ Answered("post")
  /\ Answered("mcp")
  /\ ErrorEnvelope("post")
  /\ ErrorEnvelope("mcp")
  /\ calls.post = 1
  /\ calls.mcp = 1

\* the value is a string of "0x" and forty hexadecimal digits
IsAddress(v) ==
  /\ v.t = "str"
  /\ Len(v.s) = 42
  /\ SubSeq(v.s, 1, 2) = <<"0", "x">>
  /\ \A i \in 3..42 : v.s[i] \in HexDigits

IsNonEmptyText(v) == v.t = "str" /\ v.s # <<>>

\* the value is absent, or a number within lo..hi (tenths)
IsOptionalNumber(v, lo, hi) == v.t = "undefined" \/ (v.t = "num" /\ lo <= v.n10 /\ v.n10 <= hi)

IsOptionalText(v) == v.t \in {"undefined", "str"}

\* the value is absent, or a number of at least lo (tenths)
IsOptionalNumberFrom(v, lo) == v.t = "undefined" \/ (v.t = "num" /\ lo <= v.n10)

\* the fields of the payload f that break the rules of the operation
ViolatedFields(name, f) ==
  CASE name = "getTrustScore" ->
         { n \in {"address"} : ~IsAddress(Get(f, n)) }
    [] name = "verifyCredential" ->
         { n \in {"address"} : ~IsAddress(Get(f, n)) }
         \cup { n \in {"claim"} : ~IsNonEmptyText(Get(f, n)) }
    [] name = "findTrustedExperts" ->
         { n \in {"topic"} : ~IsNonEmptyText(Get(f, n)) }
         \cup { n \in {"limit"} : ~IsOptionalNumber(Get(f, n), 10, 1000) }
    [] name = "getAttestations" ->
         { n \in {"creator", "subject", "predicate", "object"} : ~IsOptionalText(Get(f, n)) }
         \cup { n \in {"minConfidence"} : ~IsOptionalNumber(Get(f, n), 0, 10) }
         \cup { n \in {"limit"} : ~IsOptionalNumber(Get(f, n), 10, 10000) }
         \cup { n \in {"offset"} : ~IsOptionalNumberFrom(Get(f, n), 0) }
         \cup { n \in {"fromTimestamp", "toTimestamp"} :
                  Get(f, n).t \notin {"undefined", "num"} }

\* the entry point hands the params of the current request to a validator
ReachesValidator(shape) ==
  KnownName /\ (shape = "post" => (JTruthy(req.params) /\ ParamsIsObject))

\* the names the validation failure in the answer lists
IssuesIn(shape) ==
  LET listed == IF shape = "post" THEN resp.post.details ELSE resp.mcp.error
  IN { listed[i] : i \in 2..Len(listed) }

\* C20: for each of the four operations the validator yields typed params or
\* a validation failure, never both; the failure names every violated field
\* (a malformed address with an empty claim reports address and claim), and a
\* payload that is not an object is rejected as a whole, with no field named.
C20_ValidatorEnumeratesFields ==
  \A shape \in {"post", "mcp"} :
    (Answered(shape) /\ ReachesValidator(shape)) =>
      LET payload == ParamsGiven(shape)
      IN /\ payload.t # "object" =>
              ValidationAnswer(shape) /\ IssuesIn(shape) = {RootIssue}
         /\ (payload.t = "object" /\ ViolatedFields(req.tool.name, payload.f) # {}) =>
              /\ ValidationAnswer(shape)
              /\ IssuesIn(shape) = ViolatedFields(req.tool.name, payload.f)
         /\ (payload.t = "object" /\ ViolatedFields(req.tool.name, payload.f) = {}) =>
              ~ValidationAnswer(shape)
         /\ ValidationAnswer(shape) => (~resp[shape].data.present /\ calls[shape] = 0)

\* verifyCredential with a malformed address and an empty claim: both are named
C20_Witness ==
  /\ ToolIs("verifyCredential")
  /\ req.params.t = "object"
  /\ ViolatedFields("verifyCredential", req.params.f) = {"address", "claim"}
  /\ Answered("post")
  /\ Answered("mcp")
  /\ IssuesIn("post") = {"address", "claim"}
  /\ IssuesIn("mcp") = {"address", "claim"}

\* the getAttestations calls the current request has been answered with: the
\* filters that were supplied and the attestations that came back
AttestationAnswers ==
  { [filters |-> ParamsGiven(s).f, list |-> resp[s].data.v] :
      s \in { x \in Succeeded : ToolIs("getAttestations") } }
  \cup { [filters |-> resp.query.filters, list |-> resp.query.data.v] :
           x \in { y \in {"query"} : Answered("query") /\ resp.query.data.present } }

\* the attestation satisfies every filter that is present in filters
SatisfiesFilters(a, filters) ==
  /\ \A name \in {"creator", "subject", "predicate", "object"} \cap DOMAIN filters :
       includes(toLowerCase(a[name]), toLowerCase(filters[name].s))
  /\ "minConfidence" \in DOMAIN filters => a.confidence >= filters.minConfidence.n10 * 10
  /\ "fromTimestamp" \in DOMAIN filters =>
       FracLe(Frac(filters.fromTimestamp.n10, 10), a.timestamp)
  /\ "toTimestamp" \in DOMAIN filters =>
       FracLe(a.timestamp, Frac(filters.toTimestamp.n10, 10))

\* C21 (as claimed): every attestation getAttestations returns satisfies every
\* filter that was supplied: creator, subject, predicate and object by
\* case-insensitive substring, confidence >= minConfidence and
\* fromTimestamp <= timestamp <= toTimestamp.
C21_Claim ==
  \A answer \in AttestationAnswers :
    \A i \in 1..Len(answer.list) : SatisfiesFilters(answer.list[i], answer.filters)

(***************************************************************************)
(* C22: the listings                                                       *)
(***************************************************************************)
\* the listings answered in this state, by shape
AnsweredListings == { s \in {"get", "list"} : Answered(s) }

ListedNames(listing) == [i \in 1..Len(listing) |-> listing[i].name]

\* an entry carries a name, a description and a parameter schema
Described(e) ==
  /\ e.name # ""
  /\ e.description # ""
  /\ e.schema.properties # {}
  /\ e.schema.required \subseteq e.schema.properties

\* an entry carries one example invocation, of the tool it describes, whose
\* parameters are declared ones
HasExample(e) ==
  /\ e.example.present
  /\ e.example.tool = e.name
  /\ e.example.params.t = "object"
  /\ DOMAIN e.example.params.f \subseteq e.schema.properties
  /\ e.schema.required \subseteq DOMAIN e.example.params.f

\* the tool names a client may send
NameUniverse ==
  { ToolNames[i] : i \in 1..Len(ToolNames) } \cup { "deleteAttestation", "listTools" }

\* dispatch in the given shape does not answer the name with "Unknown tool"
DispatchAccepts(shape, name) ==
  IF shape = "get"
  THEN POST(impl, graph, "ok", "json", ToolName(name), EmptyObject).error
         # <<"Unknown tool: ", name>>
  ELSE FailureOf(CallTool(impl, graph, "ok", name, EmptyObject)) # "unknown"

\* the four tools, in the order of the source, and exactly the names the
\* dispatch of the same shape accepts
ListsTheFourTools(s) ==
  /\ ListedNames(resp[s].tools) = ToolNames
  /\ \A name \in NameUniverse :
       DispatchAccepts(s, name) <=> \E i \in 1..Len(resp[s].tools) : resp[s].tools[i].name = name

\* the listing of a shape is the same whatever the session has served so far
SameListingAlways(s) == resp[s].tools = IF s = "get" THEN GET.tools ELSE ListToolsResult.tools

\* C22 as stated: in both call shapes the listing returns exactly the four
\* tools, each with its name, description, parameter schema and one example
\* invocation; the names are the names dispatch accepts; the listing does not
\* change with the calls dispatched before it.
C22_Claim ==
  \A s \in AnsweredListings :
    /\ ListsTheFourTools(s)
    /\ SameListingAlways(s)
    /\ \A i \in 1..Len(resp[s].tools) :
         Described(resp[s].tools[i]) /\ HasExample(resp[s].tools[i])

(***************************************************************************)
(* C24: a failed tool call does not end the MCP session                    *)
(***************************************************************************)
\* how the current tool call must fail in the MCP session
ExpectedFailure ==
  IF ~IsKnownTool(req.tool.name) THEN "unknown"
  ELSE IF ValidatorRejects("mcp") THEN "validation"
  ELSE IF upstream # "ok" THEN "retrieval"
  ELSE "none"

\* a tool call of this session has failed, now or earlier
HasFailed == session.lastFailure # "none"

\* C24: in the MCP session a tool call that ends in a validation error, an
\* unknown-tool error or a retrieval error is answered by the handler with
\* isError true and the session keeps running; after such a failure every
\* ListTools and CallTool request can still be served, and what it is answered
\* is what a session without the failure answers.
C24_SessionSurvivesFailure ==
  /\ session.running
  /\ Answered("mcp") =>
       /\ ~resp.mcp.uncaught
       /\ resp.mcp.isError <=> ExpectedFailure # "none"
       /\ resp.mcp.isError => session.lastFailure = ExpectedFailure
  /\ HasFailed =>
       /\ (req.kind = "tool" /\ ~Answered("mcp")) => CanCallTool
       /\ (req.kind = "list" /\ ~Answered("list")) => CanListTools
       /\ Answered("mcp") =>
            resp.mcp = CallTool(impl, graph, upstream, req.tool.name, req.params)
       /\ Answered("list") => resp.list = ListToolsResult

\* a tool call succeeds in a session in which an earlier one failed
C24_Witness ==
  /\ HasFailed
  /\ Answered("mcp")
  /\ ~resp.mcp.isError
  /\ resp.mcp.data.present

(***************************************************************************)
(* C23: invocations served concurrently                                    *)
(***************************************************************************)
Finished == { i \in Invocations : tasks[i].pc = "done" }

\* what the i-th invocation returns when it is the only one
Alone(i) ==
  Answer(tasks[i].shape, impl, graph, tasks[i].up, tasks[i].tool, tasks[i].params)

ExpertsParamsOk(payload) ==
  /\ payload.t = "object"
  /\ IsNonEmptyText(Get(payload.f, "topic"))
  /\ IsOptionalNumber(Get(payload.f, "limit"), 10, 1000)

LimitOmitted(payload) == payload.t = "object" /\ "limit" \notin DOMAIN payload.f

\* the subjects of the graph that have an attestation matching the topic
MatchingSubjects(topic) ==
  { graph[i].subject.wallet_id :
      i \in { j \in 1..Len(graph) :
                includes(toLowerCase(graph[j].predicate.label), toLowerCase(topic)) } }

\* C25: findTrustedExperts accepts its params only when topic is a non-empty
\* string and limit, if present, is a number in 1..100; when limit is omitted
\* the validator supplies 10, so the dispatch returns at most 10 experts (the
\* first 10 when more subjects match).
C25_DefaultLimitTen ==
  \A shape \in {"post", "mcp"} :
    (Answered(shape) /\ ToolIs("findTrustedExperts") /\ ReachesValidator(shape)) =>
      LET payload == ParamsGiven(shape)
      IN /\ ValidationAnswer(shape) <=> ~ExpertsParamsOk(payload)
         /\ ExpertsParamsOk(payload) <=> resp[shape].data.present
         /\ (ExpertsParamsOk(payload) /\ LimitOmitted(payload)) =>
              /\ FindTrustedExpertsSchema(payload).value.limit = JNum(100)
              /\ Len(resp[shape].data.v) <= 10
              /\ Len(resp[shape].data.v) =
                   Min(10, Cardinality(MatchingSubjects(payload.f.topic.s)))

\* more than ten subjects match, the limit is omitted, ten experts come back
C25_Witness ==
  \E shape \in {"post", "mcp"} :
    /\ Answered(shape)
    /\ ToolIs("findTrustedExperts")
    /\ LimitOmitted(req.params)
    /\ resp[shape].data.present
    /\ Cardinality(MatchingSubjects(req.params.f.topic.s)) > 10
    /\ Len(resp[shape].data.v) = 10

(***************************************************************************)
(* C26: values thrown that are not Error instances                         *)
(***************************************************************************)
\* the request of the current dispatch to the graph service threw a value
\* that is not an Error instance
NonErrorThrown(shape) ==
  /\ Answered(shape)
  /\ Dispatched(shape)
  /\ upstream = "nonError"

\* the generic message of the catch block of the entry point
FallbackMessage(shape) ==
  IF shape = "post" THEN <<"Failed to execute tool">> ELSE <<"Unknown error occurred">>

\* the text of the thrown value occurs in the error of the answer
RawValueIn(error) == \E i \in 1..Len(error) : error[i] = UpstreamMessage

\* the error is a "Failed to ...: " prefix of the client followed by its
\* generic text
ClientFallback(error) == Carries(error, "Unknown error")

\* C26 as stated: when a value that is not an Error instance is thrown during
\* dispatch, the error envelope carries the generic message of the entry
\* point ('Failed to execute tool' on POST, 'Unknown error occurred' in the
\* MCP session) and never the raw thrown value.
C26_Claim ==
  \A shape \in {"post", "mcp"} :
    NonErrorThrown(shape) =>
      /\ ~resp[shape].data.present
      /\ resp[shape].error = FallbackMessage(shape)
      /\ ~RawValueIn(resp[shape].error)

\* C26 amended: when the request to the graph service throws a value that is
\* not an Error instance, the client replaces it by an Error whose message is
\* its 'Failed to ...: ' prefix followed by 'Unknown error'; the error envelope
\* of both entry points carries that message, with status 500 on POST and
\* isError in the MCP session, and never the raw thrown value.  The messages
\* 'Failed to execute tool' and 'Unknown error occurred' of the two catch
\* blocks are not what such a dispatch is answered.
C26_Amended ==
  \A shape \in {"post", "mcp"} :
    NonErrorThrown(shape) =>
      /\ ~resp[shape].data.present
      /\ ClientFallback(resp[shape].error)
      /\ ~RawValueIn(resp[shape].error)
      /\ resp[shape].error # FallbackMessage(shape)
      /\ shape = "post" => (resp.post.status = 500 /\ resp.post.success = "false")
      /\ shape = "mcp" => resp.mcp.isError

\* both entry points have answered a dispatch whose request threw a non-Error
C26_Witness ==
  /\ NonErrorThrown("post")
  /\ NonErrorThrown("mcp")
  /\ ClientFallback(resp.post.error)
  /\ ClientFallback(resp.mcp.error)

(***************************************************************************)
(* C27: normalization of subject, predicate and object                     *)
(***************************************************************************)
\* the attestation lists the current request was answered with
ReturnedLists ==
  Results("getAttestations")
  \cup { resp.query.data.v : x \in { y \in {"query"} : Answered(y) /\ resp[y].data.present } }

\* the record of the graph an attestation was made from
SourceOf(a) == CHOOSE t \in { graph[i] : i \in 1..Len(graph) } : t.term_id = a.id

\* the first non-empty value of a sequence of candidates, or the empty string
RECURSIVE FirstNonEmpty(_)
FirstNonEmpty(cands) ==
  IF cands = <<>> THEN <<>>
  ELSE IF Truthy(Head(cands)) THEN Head(cands)
  ELSE FirstNonEmpty(Tail(cands))

\* label, raw data and wallet identifier of a nested record, in the given order
FieldsOf(node, order) == [i \in 1..Len(order) |-> Opt(node, order[i])]

Orders ==
  { o \in [1..3 -> {"label", "data", "wallet_id"}] : \A i, j \in 1..3 : i # j => o[i] # o[j] }

Parts == {"subject", "predicate", "object"}

\* C27 as stated: for each source record the normalized subject, predicate
\* and object each equal the first non-empty value among label, raw data and
\* wallet identifier of the nested record, taken in a fixed priority order,
\* and the empty string when all of them are empty or missing; a missing
\* nested record never makes normalization fail.
C27_Claim ==
  \A part \in Parts :
    \E order \in Orders :
      \A list \in ReturnedLists :
        \A i \in 1..Len(list) :
          list[i][part] = FirstNonEmpty(FieldsOf(SourceOf(list[i])[part], order))

\* the candidates of a part in the order the deployed client tries them
CandidatesOf(part, t) ==
  IF impl = "graphql"
  THEN CASE part = "subject" -> FieldsOf(t.subject, <<"wallet_id", "label">>)
         [] part = "predicate" -> FieldsOf(t.predicate, <<"label", "data">>)
         [] part = "object" -> FieldsOf(t.object, <<"label", "wallet_id", "data">>)
  ELSE CASE part = "subject" ->
              FieldsOf(t.subject, <<"data", "label", "wallet_id">>) \o <<t.subject_id>>
         [] part = "predicate" ->
              FieldsOf(t.predicate, <<"data", "label">>) \o <<t.predicate_id>>
         [] part = "object" ->
              FieldsOf(t.object, <<"data", "label">>) \o <<t.object_id>>

\* the request is a valid getAttestations call or query that the service answers
ListingExpected(shape) ==
  /\ Dispatched(shape)
  /\ shape # "query" => ToolIs("getAttestations")
  /\ upstream = "ok"
  /\ WholeNumbers(shape)

\* C27 amended: the normalized subject, predicate and object each equal the
\* first non-empty value among the candidates of the deployed client, in its
\* fixed order, and the empty string when all are empty or missing.  In
\* lib/intuition/client.ts the candidates are wallet identifier then label for
\* the subject, label then raw data for the predicate, label, wallet
\* identifier then raw data for the object; in src/unnamed/part_005 they are
\* raw data then label (then the wallet identifier, for the subject), and
\* last the subject_id, predicate_id or object_id of the record itself.  A
\* missing nested record never makes normalization fail.
C27_Amended ==
  /\ \A list \in ReturnedLists :
       \A i \in 1..Len(list) :
         \A part \in Parts :
           list[i][part] = FirstNonEmpty(CandidatesOf(part, SourceOf(list[i])))
  /\ \A shape \in {"post", "mcp", "query"} :
       (Answered(shape) /\ ListingExpected(shape)) => resp[shape].data.present

\* a returned attestation comes from a record without subject or object
\* record, and another from a record with two non-empty candidates
C27_Witness ==
  \E list \in ReturnedLists :
    \E i, j \in 1..Len(list) :
      /\ SourceOf(list[i]).subject.isNull \/ SourceOf(list[i]).object.isNull
      /\ Truthy(SourceOf(list[j]).object.wallet_id)
      /\ Truthy(SourceOf(list[j]).object.data)

(***************************************************************************)
(* C28: the checks of POST before the tool is looked up                    *)
(***************************************************************************)
\* the body of the current request has no tool field
LacksTool == req.kind = "tool" /\ req.body = "json" /\ req.tool.t = "undefined"

\* the params of the current request are missing, null or not a JSON object
ParamsNotObject == req.kind = "tool" /\ req.body = "json" /\ req.params.t # "object"

\* the answer of POST was given by one of its two first checks, before the
\* lookup: it is not the answer of a validator or of the lookup
RejectedBeforeLookup ==
  /\ resp.post.status = 400
  /\ resp.post.error = IF ToolFalsy(req.tool) THEN <<"Missing required field: tool">>
                       ELSE <<"Missing or invalid params object">>
  /\ resp.post.details = <<>>
  /\ resp.post.availableTools = <<>>
  /\ ~resp.post.data.present
  /\ calls.post = 0

\* C28 as stated: a request to the POST tool endpoint that lacks a tool
\* field, or whose params is missing, null or not an object, is answered with
\* status 400 before the tool name is looked up; no validator, engine function
\* or graph request is invoked for it, so an unknown tool sent without params
\* gets the params error.
C28_Claim ==
  (Answered("post") /\ (LacksTool \/ ParamsNotObject)) => RejectedBeforeLookup

\* C28 amended: a request to the POST tool endpoint that lacks a tool field,
\* or whose params is missing, null, or a string, number or boolean, is
\* answered with status 400 before the tool name is looked up, and no
\* validator, engine function or graph request is invoked for it (an unknown
\* tool sent without params gets the params error).  An array as params passes
\* this check, because its type is object: the lookup and the validator run,
\* and the request is answered with status 400 by them ('Unknown tool' or
\* 'Validation error'), still without a graph request.
C28_Amended ==
  Answered("post") =>
    /\ (LacksTool \/ (ParamsNotObject /\ req.params.t # "array")) => RejectedBeforeLookup
    /\ (ParamsNotObject /\ req.params.t = "array" /\ ~ToolFalsy(req.tool)) =>
         /\ resp.post.status = 400
         /\ resp.post.error = IF IsKnownTool(req.tool.name) THEN <<"Validation error">>
                              ELSE <<"Unknown tool: ", req.tool.name>>
         /\ ~resp.post.data.present
         /\ calls.post = 0

\* an unknown tool sent without params is answered with the params error
C28_Witness ==
  /\ Answered("post")
  /\ UnknownName
  /\ req.params.t = "undefined"
  /\ RejectedBeforeLookup
  /\ resp.post.error = <<"Missing or invalid params object">>

(***************************************************************************)
(* C29: what the score endpoint hands to getTrustScore                     *)
(***************************************************************************)
\* the input of the current request is a name that the deployed route resolves
ResolvableName ==
  /\ req.route = "resolving"
  /\ Truthy(req.input)
  /\ includes(trim(req.input), <<".">>)
  /\ ~(startsWith(trim(req.input), <<"0","x">>) /\ Len(trim(req.input)) = 42)
  /\ req.ens = "found"

\* '0x' followed by exactly forty hexadecimal digits
WellFormedAddress(s) ==
  /\ Len(s) = 42
  /\ SubSeq(s, 1, 2) = <<"0","x">>
  /\ \A i \in 3..42 : s[i] \in HexDigits

ScoredTwice ==
  /\ Answered("post") /\ resp.post.data.present
  /\ Answered("mcp") /\ resp.mcp.data.present
  /\ resp.post.data.v.attestationCount + 1 = Len(graph)
  /\ resp.mcp.data.v.attestationCount = Len(graph)

Added == graph[Len(graph)]

\* C30: the score of getTrustScore is monotone in the evidence: one more
\* relevant attestation that matches only positive keywords never lowers it,
\* one more that matches only negative keywords never raises it, whatever the
\* relevant attestations before.
C30_ScoreMonotone ==
  ScoredTwice =>
    /\ PositiveOnly(Added) => FracLe(resp.post.data.v.score, resp.mcp.data.v.score)
    /\ NegativeOnly(Added) => FracLe(resp.mcp.data.v.score, resp.post.data.v.score)

\* a positive attestation has raised a score that negative ones had lowered
C30_Witness ==
  /\ ScoredTwice
  /\ PositiveOnly(Added)
  /\ resp.post.data.v.negativeAttestations >= 1
  /\ ~FracLe(resp.mcp.data.v.score, resp.post.data.v.score)

====
